---- MODULE Spec2Model ----
(***************************************************************************)
(* Client-side authentication state machine of frontend-service-app:       *)
(* the auth slice (src/store/auth/authSlice.ts) and the reauth-aware base  *)
(* query (src/services/apiSlice.ts, baseQueryWithReauth), with the         *)
(* endpoints of the api slice.                                             *)
(*                                                                         *)
(* Encoding of JavaScript values: tokens and users are positive integers;  *)
(* null is 0, the empty string is -1 and undefined is -2, so that          *)
(* "truthy" is "> 0".  The server hands out the n-th credential pair as    *)
(* access token n and refresh token RefreshBase + n.  A string kept in     *)
(* AsyncStorage is a positive integer too: JSON.stringify(v) is            *)
(* JsonBase + v, BadJson is a string that JSON.parse rejects, and the      *)
(* registered-user record is RegBase + RegStride * data + k, k being the   *)
(* position of its timestamp in TimePoints (0: no timestamp).              *)
(***************************************************************************)
EXTENDS Integers, Sequences, FiniteSets, TLC

\* ------------------------------------------------------------------ bounds
\* number of baseQueryWithReauth invocations in a run
NDispatch == 2

\* number of AsyncStorage operations that may be outstanding at a time
MaxPending == 8

\* ------------------------------------------------------- value encoding
null == 0
EmptyStr == -1
undefined == -2
RefreshBase == 10
JsonBase == 100
BadJson == 99
RegBase == 1000
RegStride == 10

Truthy(x) == x > 0

Dispatches == 1..NDispatch

VARIABLES
  auth,          \* state.auth, the AuthState of the store
  storage,       \* AsyncStorage: the four persisted keys
  mutex,         \* the module-level Mutex of apiSlice.ts
  slot,          \* per invocation of baseQueryWithReauth: position and locals
  issued,        \* server side: number of credential pairs issued so far
  refreshTotal,  \* number of /refresh-token requests sent so far
  returned,      \* the invocation that returned in the last step, with its value
  pending,       \* AsyncStorage operations issued and not yet settled, oldest first
  failed,        \* some AsyncStorage operation has been rejected
  hyd,           \* the run of the hydrateAuthState thunk
  flow,          \* the onQueryStarted handler in progress
  now            \* Date.now()

vars == <<auth, storage, mutex, slot, issued, refreshTotal, returned,
          pending, failed, hyd, flow, now>>

\* what baseQueryWithReauth neither reads nor writes
appVars == <<pending, failed, hyd, flow, now>>

\* ------------------------------------------------------------ AsyncStorage
\* JSON.stringify of a user or of null; undefined has no JSON text
JSONstringify(v) == IF v = undefined THEN undefined ELSE JsonBase + v

\* faulty variant: JSON.parse accepts any string
JSONparseNeverThrows(str) == FALSE

\* JSON.parse throws on a string that is not JSON
JSONparseThrows(str) == str < JsonBase

\* JSON.parse of the JSON text of a user or of null
JSONparse(str) == str - JsonBase

\* one call of the AsyncStorage API
setItem(key, value) == [op |-> "setItem", key |-> key, value |-> value]

removeItem(key) == [op |-> "removeItem", key |-> key, value |-> null]

multiRemove == [op |-> "multiRemove", key |-> "none", value |-> null]

\* setItem is rejected when the value is not a string
Refused(o) == o.op = "setItem" /\ o.value \in {null, undefined}

\* the effect on the store of an operation that settles
Apply(store, o) ==
  CASE o.op = "setItem" ->
         IF Refused(o) THEN store ELSE [store EXCEPT ![o.key] = o.value]
    [] o.op = "removeItem" ->
         [store EXCEPT ![o.key] = null]
    [] o.op = "multiRemove" ->
         [store EXCEPT !.accessToken = null, !.refreshToken = null, !.user = null]

RECURSIVE ApplyAll(_, _)
ApplyAll(store, ops) ==
  IF ops = <<>> THEN store ELSE ApplyAll(Apply(store, Head(ops)), Tail(ops))

\* ---------------------------------------------------------------- auth slice
\* initialState of the slice
initialState ==
  [accessToken |-> null, refreshToken |-> null, user |-> null,
   isAuthenticated |-> FALSE, isHydrated |-> FALSE,
   registeredUser |-> null, isRegistered |-> FALSE]

EmptyStorage ==
  [accessToken |-> null, refreshToken |-> null, user |-> null,
   registeredUserData |-> null]

\* faulty variant: setAuthData leaves the access token as it was
setAuthDataKeepingAccessToken(state, payload) ==
  [state EXCEPT !.refreshToken = payload.tokens.refreshToken,
                !.user = IF Truthy(payload.user) THEN payload.user ELSE null,
                !.isAuthenticated = TRUE,
                !.registeredUser = null,
                !.isRegistered = FALSE]

\* reducer setAuthData: the in-memory part
setAuthData(state, payload) ==
  [state EXCEPT !.accessToken = payload.tokens.accessToken,
                !.refreshToken = payload.tokens.refreshToken,
                !.user = IF Truthy(payload.user) THEN payload.user ELSE null,
                !.isAuthenticated = TRUE,
                !.registeredUser = null,
                !.isRegistered = FALSE]

\* reducer setAuthData: the AsyncStorage calls it fires and does not await
setAuthDataOps(payload) ==
  << setItem("accessToken", payload.tokens.accessToken),
     setItem("refreshToken", payload.tokens.refreshToken),
     setItem("user", JSONstringify(payload.user)),
     removeItem("registeredUserData") >>

\* the same calls, taken as settling at once and in the order issued
setAuthDataPersist(store, payload) == ApplyAll(store, setAuthDataOps(payload))

\* faulty variant: setRegisteredUser leaves the session fields as they were
setRegisteredUserKeepingSession(state, payload) ==
  [state EXCEPT !.registeredUser = payload.user,
                !.isRegistered = payload.isRegistered]

\* reducer setRegisteredUser (it makes no AsyncStorage call)
setRegisteredUser(state, payload) ==
  [state EXCEPT !.registeredUser = payload.user,
                !.isRegistered = payload.isRegistered,
                !.isAuthenticated = FALSE,
                !.accessToken = null,
                !.refreshToken = null,
                !.user = null]

\* faulty variant: logout leaves the refresh token in the state
logoutKeepingRefreshToken(state) ==
  [state EXCEPT !.accessToken = null,
                !.isAuthenticated = FALSE,
                !.user = null,
                !.registeredUser = null,
                !.isRegistered = FALSE]

\* faulty variant: logout puts the whole initial state back
logoutToInitialState(state) ==
  [accessToken |-> null, refreshToken |-> null, user |-> null,
   isAuthenticated |-> FALSE, isHydrated |-> FALSE,
   registeredUser |-> null, isRegistered |-> FALSE]

\* reducer logout: the in-memory part (isHydrated is left as it is)
logout(state) ==
  [state EXCEPT !.accessToken = null,
                !.refreshToken = null,
                !.isAuthenticated = FALSE,
                !.user = null,
                !.registeredUser = null,
                !.isRegistered = FALSE]

\* faulty variant: logout leaves the registered-user record persisted
logoutOpsWithoutRecord ==
  << removeItem("accessToken"), removeItem("refreshToken"), removeItem("user") >>

\* reducer logout: the four AsyncStorage.removeItem calls
logoutOps ==
  << removeItem("accessToken"), removeItem("refreshToken"),
     removeItem("user"), removeItem("registeredUserData") >>

\* the same calls, taken as settling at once and in the order issued
logoutPersist(store) == ApplyAll(store, logoutOps)

\* reducer setHydrated
setHydrated(state) == [state EXCEPT !.isHydrated = TRUE]

\* ------------------------------------------------------- hydrateAuthState
REGISTERED_DATA_EXPIRATION_MS == 1000 * 60 * 60 * 24 * 7

\* the instants that occur as Date.now() or as a persisted timestamp
TimePoints == <<1, 2, 2 + REGISTERED_DATA_EXPIRATION_MS>>

TimeIndex(t) == CHOOSE k \in 1..Len(TimePoints) : TimePoints[k] = t

\* JSON.stringify({ data, timestamp }), k the position of the timestamp
RegJson(data, k) == RegBase + RegStride * data + k

\* .data and .timestamp of a parsed JSON text (undefined when the key is
\* missing, as it is in the JSON text of a user)
RegData(str) ==
  IF str >= RegBase THEN (str - RegBase) \div RegStride ELSE undefined

RegTimestamp(str) ==
  IF str >= RegBase /\ (str - RegBase) % RegStride # 0
    THEN TimePoints[(str - RegBase) % RegStride]
    ELSE undefined

\* faulty variant: a record exactly as old as the expiration time is expired
isExpiredAtBoundary(savedTimestamp, t) ==
  (t - savedTimestamp) >= REGISTERED_DATA_EXPIRATION_MS

\* line 59
isExpired(savedTimestamp, t) == (t - savedTimestamp) > REGISTERED_DATA_EXPIRATION_MS

NoOp == [op |-> "none", key |-> "none", value |-> null]

\* what is kept of a finished run when the thunk is dispatched again
NoSnapshot ==
  [taken |-> FALSE, clean |-> FALSE, branch |-> "none",
   auth |-> initialState, storage |-> EmptyStorage]

\* The locals of the thunk.  pc is the await the run is parked at: one of
\* the four getItem calls (lines 16-21), "awaiting" for the removeItem or
\* multiRemove of lines 37, 43, 70, 76, 82 and 89, or "done".
HydIdle ==
  [pc |-> "idle",
   storedAccessToken |-> null, storedRefreshToken |-> null,
   storedUserJson |-> null, storedRegisteredUserJson |-> null,
   awaited |-> NoOp,        \* the storage call the run awaits
   branch |-> "none",       \* the branch of lines 23-90 that was taken
   rejected |-> FALSE,      \* a storage call of the run was rejected
   threw |-> FALSE,         \* a dispatch of the run threw
   run |-> 1,               \* 1: the run of start-up, 2: the run of a remount
   first |-> NoSnapshot]    \* state.auth and AsyncStorage when run 1 ended

HydDone == [HydIdle EXCEPT !.pc = "done"]

\* the order of the four reads
KeyRead(pc) ==
  CASE pc = "getAccessToken" -> "accessToken"
    [] pc = "getRefreshToken" -> "refreshToken"
    [] pc = "getUser" -> "user"
    [] pc = "getRegisteredUserData" -> "registeredUserData"

LocalRead(pc) ==
  CASE pc = "getAccessToken" -> "storedAccessToken"
    [] pc = "getRefreshToken" -> "storedRefreshToken"
    [] pc = "getUser" -> "storedUserJson"
    [] pc = "getRegisteredUserData" -> "storedRegisteredUserJson"

NextRead(pc) ==
  CASE pc = "getAccessToken" -> "getRefreshToken"
    [] pc = "getRefreshToken" -> "getUser"
    [] pc = "getUser" -> "getRegisteredUserData"
    [] pc = "getRegisteredUserData" -> "decide"

\* faulty variant: the thunk ends without dispatching setHydrated
finallyWithoutSetHydrated(state) == state

\* lines 94-98: the finally block of the thunk
finallySetHydrated(state) == setHydrated(state)

\* app/_layout.tsx lines 119-123: the thunk is dispatched when the root
\* layout mounts; it runs up to its first await
HydrateStart ==
  /\ hyd.pc = "idle"
  /\ hyd' = [hyd EXCEPT !.pc = "getAccessToken"]
  /\ UNCHANGED <<auth, storage, mutex, slot, issued, refreshTotal, returned,
                 pending, failed, flow, now>>

\* app/_layout.tsx lines 119-123 once more: the root layout is mounted again
\* while the store lives on, and the thunk is dispatched a second time
Remount ==
  /\ hyd.pc = "done"
  /\ hyd.run = 1
  /\ flow.pc = "idle"
  /\ hyd' = [HydIdle EXCEPT
               !.pc = "getAccessToken",
               !.run = 2,
               !.first = [taken |-> TRUE,
                          clean |-> ~hyd.rejected /\ ~hyd.threw,
                          branch |-> hyd.branch,
                          auth |-> auth, storage |-> storage]]
  /\ UNCHANGED <<auth, storage, mutex, slot, issued, refreshTotal, returned,
                 pending, failed, flow, now>>

\* faulty variant: dispatching setRegisteredUser persists the record again
\* with the current instant as its timestamp
setRegisteredUserRenews(store, payload, t) ==
  Apply(store, setItem("registeredUserData", RegJson(payload.user, TimeIndex(t))))

\* lines 164-179: what dispatching setRegisteredUser does to AsyncStorage
\* (the reducer makes no AsyncStorage call)
setRegisteredUserPersist(store, payload, t) == store

\* lines 23-90, entered with the four values read: the branch taken, what it
\* dispatches, and the storage call it awaits (NoOp when it awaits none).
\* dispatchThrows: the dispatch of the branch, if it has one, throws.
Decide(h, state, store, t, dispatchThrows) ==
  LET at == h.storedAccessToken
      rt == h.storedRefreshToken
      uj == h.storedUserJson
      rj == h.storedRegisteredUserJson
      payload == [tokens |-> [accessToken |-> at, refreshToken |-> rt],
                  user |-> JSONparse(uj), isAuthenticated |-> TRUE]
      rmReg == removeItem("registeredUserData")
      out(c, st, sto, op, th) ==
        [branch |-> c, auth |-> st, storage |-> sto, awaited |-> op, threw |-> th]
  IN IF Truthy(at) /\ Truthy(rt) /\ Truthy(uj)
       THEN IF JSONparseThrows(uj)
              THEN out("corruptedUser", state, store, multiRemove, FALSE)
              ELSE IF dispatchThrows
                     THEN out("corruptedUser", state, store, multiRemove, TRUE)
                     ELSE out("authenticated", setAuthData(state, payload),
                              setAuthDataPersist(store, payload), rmReg, FALSE)
       ELSE IF Truthy(rj)
              THEN IF JSONparseThrows(rj)
                     THEN out("corruptedRegistered", state, store, rmReg, FALSE)
                     ELSE IF Truthy(RegData(rj)) /\ Truthy(RegTimestamp(rj))
                            THEN IF ~isExpired(RegTimestamp(rj), t)
                                   THEN IF dispatchThrows
                                          THEN out("corruptedRegistered", state, store,
                                                   rmReg, TRUE)
                                          ELSE out("registered",
                                                   setRegisteredUser(state,
                                                     [user |-> RegData(rj),
                                                      isRegistered |-> TRUE]),
                                                   setRegisteredUserPersist(store,
                                                     [user |-> RegData(rj),
                                                      isRegistered |-> TRUE], t),
                                                   NoOp, FALSE)
                                   ELSE out("expired", state, store, rmReg, FALSE)
                            ELSE out("incomplete", state, store, rmReg, FALSE)
              ELSE out("nothing", state, store, rmReg, FALSE)

\* lines 16-90: a getItem settles.  Rejected: the catch of line 91 and the
\* finally block run.  Resolved: the value is kept and the next getItem is
\* issued; after the fourth, the branch is taken up to its await, or up to
\* the end of the thunk when it awaits nothing.
HydGetItem(ok, dispatchThrows) ==
  /\ hyd.pc \in {"getAccessToken", "getRefreshToken", "getUser",
                 "getRegisteredUserData"}
  /\ dispatchThrows => (ok /\ hyd.pc = "getRegisteredUserData")
  /\ IF ~ok
       THEN /\ hyd' = [hyd EXCEPT !.pc = "done", !.rejected = TRUE]
            /\ auth' = finallySetHydrated(auth)
            /\ UNCHANGED storage
       ELSE LET h == [hyd EXCEPT ![LocalRead(hyd.pc)] = storage[KeyRead(hyd.pc)]]
            IN IF NextRead(hyd.pc) # "decide"
                 THEN /\ hyd' = [h EXCEPT !.pc = NextRead(hyd.pc)]
                      /\ UNCHANGED <<auth, storage>>
                 ELSE LET o == Decide(h, auth, storage, now, dispatchThrows)
                      IN /\ dispatchThrows => o.threw
                         /\ storage' = o.storage
                         /\ IF o.awaited = NoOp
                              THEN /\ auth' = finallySetHydrated(o.auth)
                                   /\ hyd' = [h EXCEPT !.pc = "done", !.branch = o.branch]
                              ELSE /\ auth' = o.auth
                                   /\ hyd' = [h EXCEPT !.pc = "awaiting",
                                                       !.branch = o.branch,
                                                       !.awaited = o.awaited,
                                                       !.threw = o.threw]
  /\ UNCHANGED <<mutex, slot, issued, refreshTotal, returned,
                 pending, failed, flow, now>>

\* lines 37-98: the awaited removeItem or multiRemove settles (a rejection is
\* swallowed by its .catch), then the finally block runs
HydSettled(ok) ==
  /\ hyd.pc = "awaiting"
  /\ storage' = IF ok THEN Apply(storage, hyd.awaited) ELSE storage
  /\ auth' = finallySetHydrated(auth)
  /\ hyd' = [hyd EXCEPT !.pc = "done", !.awaited = NoOp,
                        !.rejected = @ \/ ~ok]
  /\ UNCHANGED <<mutex, slot, issued, refreshTotal, returned,
                 pending, failed, flow, now>>

\* ------------------------------------------------------------------- mutex
\* The Mutex of async-mutex as apiSlice.ts uses it: one holder, acquirers
\* served first come first served, a releaser that acts once.
NewMutex == [holder |-> 0, queue |-> <<>>]

isLocked(m) == m.holder # 0

\* mutex.acquire(): the lock is taken at once when free, else the caller queues
acquire(m, d) ==
  IF m.holder = 0
    THEN [m EXCEPT !.holder = d]
    ELSE [m EXCEPT !.queue = Append(@, d)]

\* faulty variant: the releaser acts every time it is called
releaseEveryCall(m, d, called) ==
  IF m.queue = <<>>
    THEN [m EXCEPT !.holder = 0]
    ELSE [holder |-> Head(m.queue), queue |-> Tail(m.queue)]

\* faulty variant: release() frees the lock and leaves the queued acquirers
\* waiting
releaseForgetsQueue(m, d, called) ==
  IF called THEN m ELSE [m EXCEPT !.holder = 0]

\* release(): the releaser handed to d by acquire(); a second call does nothing
release(m, d, called) ==
  IF called
    THEN m
    ELSE IF m.queue = <<>>
           THEN [m EXCEPT !.holder = 0]
           ELSE [holder |-> Head(m.queue), queue |-> Tail(m.queue)]

\* faulty variant: waitForUnlock() resolves whatever the state of the mutex
waitForUnlockAtOnce(m) == TRUE

\* mutex.waitForUnlock(): the promise is resolved once nobody holds the lock;
\* the lock is not taken
waitForUnlock(m) == ~isLocked(m)

\* --------------------------------------------------------------- endpoints
\* The endpoints of the api slice.  "extraOptions" is the endpoint-level
\* option object, which createApi passes to the base query as its third
\* argument; "inQuery" is an extraOptions key put inside the object that
\* query() returns, which reaches the base query only as part of args.
Endpoints ==
  {"getUser", "checkUsernameAvailability", "register", "verifyOtp", "login"}

EndpointDef(ep) ==
  CASE ep = "getUser" ->
         [extraOptions |-> "true", inQuery |-> "undefined"]
    [] ep = "checkUsernameAvailability" ->
         [extraOptions |-> "false", inQuery |-> "undefined"]
    [] ep = "register" ->
         [extraOptions |-> "undefined", inQuery |-> "false"]
    [] ep = "verifyOtp" ->
         [extraOptions |-> "undefined", inQuery |-> "false"]
    [] ep = "login" ->
         [extraOptions |-> "undefined", inQuery |-> "false"]
    [] ep = "logout" ->
         [extraOptions |-> "undefined", inQuery |-> "true"]

\* extraOptions.requiresAuth as baseQueryWithReauth receives it for an
\* endpoint (the parameter defaults to {} when the endpoint defines none)
requiresAuthOf(ep) == EndpointDef(ep).extraOptions

\* faulty variant: the early return for anonymous endpoints is never taken
skipsReauthNever(requiresAuth) == FALSE

\* the test of line 70: typedExtra?.requiresAuth === false
skipsReauth(requiresAuth) == requiresAuth = "false"

\* ---------------------------------------------------------------- transport
\* `extra` of prepareHeaders is the thunk extra argument of the store, which
\* configureStore leaves undefined
ThunkExtra == [isRefresh |-> "undefined", requiresAuth |-> "undefined"]

\* prepareHeaders: the bearer token put in the Authorization header, or null
\* when the header is not set
prepareHeaders(accessToken, extra) ==
  IF Truthy(accessToken) /\ extra.isRefresh # "true" /\ extra.requiresAuth # "false"
    THEN accessToken
    ELSE null

NoBody ==
  [isNull |-> TRUE, accessToken |-> undefined, refreshToken |-> undefined,
   access_token |-> undefined, refresh_token |-> undefined, user |-> undefined]

Body(a, r, sa, sr, u) ==
  [isNull |-> FALSE, accessToken |-> a, refreshToken |-> r,
   access_token |-> sa, refresh_token |-> sr, user |-> u]

\* What fetchBaseQuery resolves to: {data, meta} or {error, meta}.
\* tag is "data" or "error"; status is error.status; http is
\* meta.response.status ("none" when no response was received).
Result(kind, tag, status, originalStatus, http, body) ==
  [kind |-> kind, tag |-> tag, status |-> status,
   originalStatus |-> originalStatus, http |-> http, body |-> body]

\* answers to an ordinary request (first attempt, retry or replay)
Responses(kind) ==
  { Result(kind, "data", "none", "none", "200", NoBody),
    Result(kind, "error", "401", "none", "401", NoBody),
    Result(kind, "error", "500", "none", "500", NoBody),
    Result(kind, "error", "PARSING_ERROR", "401", "401", NoBody),
    Result(kind, "error", "PARSING_ERROR", "200", "200", NoBody),
    Result(kind, "error", "FETCH_ERROR", "none", "none", NoBody) }

\* answers to POST /refresh-token when the server would issue pair number n
RefreshIssuing(n) ==
  { Result("refresh", "data", "none", "none", "200",
           Body(n, RefreshBase + n, undefined, undefined, undefined)),
    Result("refresh", "data", "none", "none", "200",
           Body(undefined, undefined, n, RefreshBase + n, undefined)),
    Result("refresh", "data", "none", "none", "200",
           Body(undefined, undefined, n, RefreshBase + n, 2)),
    Result("refresh", "data", "none", "none", "200",
           Body(EmptyStr, EmptyStr, n, RefreshBase + n, undefined)),
    Result("refresh", "data", "none", "none", "200",
           Body(n, RefreshBase + n, undefined, undefined, 2)),
    Result("refresh", "data", "none", "none", "200",
           Body(undefined, undefined, n, RefreshBase + n, null)) }

RefreshRefusing ==
  { Result("refresh", "data", "none", "none", "200",
           Body(undefined, undefined, undefined, undefined, undefined)),
    Result("refresh", "data", "none", "none", "200", NoBody),
    Result("refresh", "error", "401", "none", "401", NoBody),
    Result("refresh", "error", "FETCH_ERROR", "none", "none", NoBody) }

\* faulty variant: a parsing error that wraps a 401 is not taken as a 401
isUnauthorizedStatusOnly(result) ==
  result.tag = "error" /\ result.status = "401"

\* lines 95-104: isUnauthorized
isUnauthorized(result) ==
  /\ result.tag = "error"
  /\ \/ result.status = "401"
     \/ (result.status = "PARSING_ERROR" /\ result.originalStatus = "401")

\* faulty variant: the test for a missing refresh token is left out
PathOfWithoutTokenTest(originalAccessToken, accessTokenAfterMutex, refreshToken) ==
  IF Truthy(accessTokenAfterMutex) /\ accessTokenAfterMutex # originalAccessToken
    THEN "retry"
    ELSE "refresh"

\* lines 151-178: which of the three paths is taken under the mutex
PathOf(originalAccessToken, accessTokenAfterMutex, refreshToken) ==
  IF Truthy(accessTokenAfterMutex) /\ accessTokenAfterMutex # originalAccessToken
    THEN "retry"
    ELSE IF ~Truthy(refreshToken) THEN "logout" ELSE "refresh"

\* faulty variant: the left operand is taken even when it is null
CoalesceLeft(x, y) == IF x = undefined THEN y ELSE x

\* ?? of JavaScript
Coalesce(x, y) == IF x = null \/ x = undefined THEN y ELSE x

\* lines 225-259: the tokens and the user taken from the refresh response
ExtractTokens(refreshResult) ==
  LET data == refreshResult.body
      none == [newAccessToken |-> null, newRefreshToken |-> null, newUserData |-> null]
  IN IF refreshResult.tag = "data" /\ ~data.isNull /\ refreshResult.http = "200"
       THEN IF data.accessToken # undefined /\ data.refreshToken # undefined
              THEN [newAccessToken |-> data.accessToken,
                    newRefreshToken |-> data.refreshToken,
                    newUserData |-> null]
              ELSE IF data.access_token # undefined /\ data.refresh_token # undefined
                     THEN [newAccessToken |-> Coalesce(data.access_token, null),
                           newRefreshToken |-> Coalesce(data.refresh_token, null),
                           newUserData |-> Coalesce(data.user, null)]
                     ELSE none
       ELSE none

\* line 262: the refresh counts as successful
refreshSucceeded(t) == Truthy(t.newAccessToken) /\ Truthy(t.newRefreshToken)

\* ------------------------------------------------------ baseQueryWithReauth
NoResult == Result("none", "none", "none", "none", "none", NoBody)

\* The locals of one invocation.  pc is the await the invocation is parked at:
\*   idle        not called yet
\*   anonSent    line 76, the request of an endpoint with requiresAuth false
\*   waitUnlock  line 80, mutex.waitForUnlock()
\*   firstSent   line 85, the original request
\*   acquiring   line 119, mutex.acquire()
\*   retrySent   line 161, the retry of Path 1
\*   refreshSent line 194, POST /refresh-token
\*   replaySent  line 291, the retry after a successful refresh
\*   done        returned or thrown
IdleSlot ==
  [pc |-> "idle", ep |-> "none",
   firstTok |-> null,        \* bearer token of the first attempt
   unauth |-> FALSE,         \* isUnauthorized of the first result
   firstRes |-> NoResult,    \* result of the first attempt
   lockedAtStart |-> FALSE,  \* the mutex was locked when the call began
   acquired |-> FALSE,       \* mutex.acquire() has resolved for this call
   called |-> FALSE,         \* release() has been called
   path |-> "none",
   tokAtAcquire |-> null,    \* state.auth.accessToken read after acquire
   rtAtAcquire |-> null,     \* state.auth.refreshToken read after acquire
   nRefresh |-> 0,           \* /refresh-token requests sent by this call
   nSends |-> 0,             \* times the original request was sent
   acts |-> <<>>,            \* actions this call dispatched to the store
   refreshHdr |-> null,      \* Refresh-Token header of the refresh request
   refreshBearer |-> null,   \* bearer token of the refresh request
   newA |-> null,            \* tokens taken from the refresh response
   newR |-> null,
   replayTok |-> null,       \* bearer token of the retry or replay
   authAtReplay |-> initialState,  \* state.auth when the replay was sent
   threw |-> FALSE]          \* the call ended by an exception

NoReturn == [d |-> 0, call |-> IdleSlot, result |-> NoResult, last |-> NoResult,
             threw |-> FALSE]

\* what is kept of a call once it has returned
Finished(s) ==
  [IdleSlot EXCEPT !.pc = "done", !.firstTok = s.firstTok, !.unauth = s.unauth,
                   !.nRefresh = s.nRefresh, !.newA = s.newA,
                   !.replayTok = s.replayTok, !.threw = s.threw]

\* faulty variant: the early release of Path 1 is done on every path
releasesOnEveryPath(path) == TRUE

\* line 159: on Path 1 the mutex is released before the retry is sent
releasesBeforeRetry(path) == path = "retry"

\* lines 60-85: entry.  An endpoint whose extraOptions carry requiresAuth
\* false is sent at once.  Any other call goes to mutex.waitForUnlock(): with
\* the mutex free the promise is already resolved and the original request
\* is sent in the same turn of the event loop; otherwise the call parks.
Start(d, e) ==
  /\ slot[d].pc = "idle"
  /\ \A c \in Dispatches : c < d => slot[c].pc # "idle"
  /\ slot' = [slot EXCEPT ![d] =
       IF skipsReauth(requiresAuthOf(e))
         THEN [@ EXCEPT !.pc = "anonSent", !.ep = e,
                        !.lockedAtStart = isLocked(mutex),
                        !.firstTok = prepareHeaders(auth.accessToken, ThunkExtra),
                        !.nSends = 1]
         ELSE IF waitForUnlock(mutex)
                THEN [@ EXCEPT !.pc = "firstSent", !.ep = e,
                               !.firstTok = prepareHeaders(auth.accessToken, ThunkExtra),
                               !.nSends = 1]
                ELSE [@ EXCEPT !.pc = "waitUnlock", !.ep = e]]
  /\ returned' = NoReturn
  /\ UNCHANGED <<auth, storage, mutex, issued, refreshTotal>>

\* line 76: the transport result of an anonymous request is returned as it is
AnonRespond(d, resp) ==
  /\ slot[d].pc = "anonSent"
  /\ returned' = [d |-> d, call |-> slot[d], result |-> resp, last |-> resp,
                  threw |-> FALSE]
  /\ slot' = [slot EXCEPT ![d] = Finished(slot[d])]
  /\ UNCHANGED <<auth, storage, mutex, issued, refreshTotal>>

\* lines 80-85: the promise of waitForUnlock() is resolved for a parked
\* call, the original request is sent
Unlocked(d) ==
  /\ slot[d].pc = "waitUnlock"
  /\ waitForUnlock(mutex)
  /\ slot' = [slot EXCEPT ![d] =
       [@ EXCEPT !.pc = "firstSent", !.lockedAtStart = TRUE,
                 !.firstTok = prepareHeaders(auth.accessToken, ThunkExtra),
                 !.nSends = 1]]
  /\ returned' = NoReturn
  /\ UNCHANGED <<auth, storage, mutex, issued, refreshTotal>>

\* lines 85-119 and 325: the first result.  Unauthorized: mutex.acquire() is
\* called; anything else is returned.
FirstRespond(d, resp) ==
  /\ slot[d].pc = "firstSent"
  /\ IF isUnauthorized(resp)
       THEN /\ slot' = [slot EXCEPT ![d] =
                 [@ EXCEPT !.pc = "acquiring", !.firstRes = resp, !.unauth = TRUE,
                           !.lockedAtStart = FALSE]]
            /\ mutex' = acquire(mutex, d)
            /\ returned' = NoReturn
       ELSE /\ returned' = [d |-> d, call |-> [slot[d] EXCEPT !.firstRes = resp],
                            result |-> resp, last |-> resp, threw |-> FALSE]
            /\ slot' = [slot EXCEPT ![d] = Finished(slot[d])]
            /\ UNCHANGED mutex
  /\ UNCHANGED <<auth, storage, issued, refreshTotal>>

\* faulty variant: release() is missing from the finally block
finallyWithoutRelease(m, d, called) == m

\* lines 318-321: the finally block
finallyRelease(m, d, called) == release(m, d, called)

\* value handed back to the caller, and what is kept of the call
Return(d, call, result, last, threw) ==
  /\ returned' = [d |-> d, call |-> call, result |-> result, last |-> last,
                  threw |-> threw]
  /\ slot' = [slot EXCEPT ![d] = Finished(call)]

\* lines 119-212: acquire() has resolved; the state is read and one of the
\* three paths is taken, up to its next await or to the return
Acquired(d) ==
  /\ slot[d].pc = "acquiring"
  /\ mutex.holder = d
  /\ LET originalAccessToken == auth.accessToken
         refreshToken == auth.refreshToken
         accessTokenAfterMutex == auth.accessToken
         path == PathOf(originalAccessToken, accessTokenAfterMutex, refreshToken)
         early == releasesBeforeRetry(path)
         m1 == IF early THEN release(mutex, d, FALSE) ELSE mutex
         s1 == [slot[d] EXCEPT !.acquired = TRUE, !.path = path, !.called = early,
                               !.tokAtAcquire = accessTokenAfterMutex,
                               !.rtAtAcquire = refreshToken]
     IN CASE path = "retry" ->
               /\ slot' = [slot EXCEPT ![d] =
                    [s1 EXCEPT !.pc = "retrySent",
                               !.replayTok = prepareHeaders(auth.accessToken, ThunkExtra),
                               !.nSends = @ + 1]]
               /\ mutex' = m1
               /\ returned' = NoReturn
               /\ UNCHANGED <<auth, storage, refreshTotal>>
          [] path = "logout" ->
               /\ auth' = logout(auth)
               /\ storage' = logoutPersist(storage)
               /\ mutex' = finallyRelease(m1, d, s1.called)
               /\ Return(d, [s1 EXCEPT !.acts = Append(@, "logout"), !.called = TRUE],
                         s1.firstRes, s1.firstRes, FALSE)
               /\ UNCHANGED refreshTotal
          [] path = "refresh" ->
               /\ slot' = [slot EXCEPT ![d] =
                    [s1 EXCEPT !.pc = "refreshSent", !.refreshHdr = refreshToken,
                               !.refreshBearer =
                                  prepareHeaders(auth.accessToken, ThunkExtra),
                               !.nRefresh = @ + 1]]
               /\ refreshTotal' = refreshTotal + 1
               /\ mutex' = m1
               /\ returned' = NoReturn
               /\ UNCHANGED <<auth, storage>>
  /\ UNCHANGED issued

\* lines 213-321: the refresh result.  With both tokens extracted the store
\* is updated and the original request is sent again; otherwise logout is
\* dispatched and the refresh result is returned.
RefreshRespond(d, refreshResult) ==
  /\ slot[d].pc = "refreshSent"
  /\ issued' = IF refreshResult \in RefreshIssuing(issued + 1) THEN issued + 1 ELSE issued
  /\ LET t == ExtractTokens(refreshResult)
         payload == [tokens |-> [accessToken |-> t.newAccessToken,
                                 refreshToken |-> t.newRefreshToken],
                     user |-> Coalesce(t.newUserData, auth.user),
                     isAuthenticated |-> TRUE]
     IN IF refreshSucceeded(t)
          THEN /\ auth' = setAuthData(auth, payload)
               /\ storage' = setAuthDataPersist(storage, payload)
               /\ slot' = [slot EXCEPT ![d] =
                    [@ EXCEPT !.pc = "replaySent",
                              !.newA = t.newAccessToken, !.newR = t.newRefreshToken,
                              !.acts = Append(@, "setAuthData"),
                              !.replayTok = prepareHeaders(auth'.accessToken, ThunkExtra),
                              !.nSends = @ + 1,
                              !.authAtReplay = auth']]
               /\ returned' = [NoReturn EXCEPT !.last = refreshResult]
               /\ UNCHANGED mutex
          ELSE /\ auth' = logout(auth)
               /\ storage' = logoutPersist(storage)
               /\ mutex' = finallyRelease(mutex, d, slot[d].called)
               /\ Return(d, [slot[d] EXCEPT !.acts = Append(@, "logout"),
                                            !.path = "refreshFailed", !.called = TRUE],
                         refreshResult, refreshResult, FALSE)
  /\ UNCHANGED refreshTotal

\* faulty variant: an unauthorized result of the retry or replay goes through
\* the 401 handling again
ReplayRespondReauth(d, resp) ==
  /\ slot[d].pc \in {"retrySent", "replaySent"}
  /\ resp.kind = (IF slot[d].pc = "retrySent" THEN "retry" ELSE "replay")
  /\ IF isUnauthorized(resp)
       THEN /\ mutex' = acquire(finallyRelease(mutex, d, slot[d].called), d)
            /\ slot' = [slot EXCEPT ![d] = [@ EXCEPT !.pc = "acquiring",
                                                     !.called = FALSE]]
            /\ returned' = NoReturn
       ELSE /\ mutex' = finallyRelease(mutex, d, slot[d].called)
            /\ Return(d, [slot[d] EXCEPT !.called = TRUE], resp, resp, FALSE)
  /\ UNCHANGED <<auth, storage, issued, refreshTotal>>

\* lines 161 and 291, then 318-325: the result of the retry (Path 1) or of
\* the replay (Path 3) becomes the result; finally; return
ReplayRespond(d, resp) ==
  /\ slot[d].pc \in {"retrySent", "replaySent"}
  /\ resp.kind = (IF slot[d].pc = "retrySent" THEN "retry" ELSE "replay")
  /\ mutex' = finallyRelease(mutex, d, slot[d].called)
  /\ Return(d, [slot[d] EXCEPT !.called = TRUE], resp, resp, FALSE)
  /\ UNCHANGED <<auth, storage, issued, refreshTotal>>

\* a baseQuery call rejects: inside the try block the finally block runs, and
\* the exception leaves baseQueryWithReauth
Throws(d) ==
  /\ slot[d].pc \in {"anonSent", "firstSent", "retrySent", "refreshSent", "replaySent"}
  /\ mutex' = IF slot[d].acquired
                THEN finallyRelease(mutex, d, slot[d].called)
                ELSE mutex
  /\ Return(d, [slot[d] EXCEPT !.called = slot[d].acquired, !.threw = TRUE],
            NoResult, NoResult, TRUE)
  /\ UNCHANGED <<auth, storage, issued, refreshTotal>>

\* ------------------------------------------------- onQueryStarted handlers
\* The handler in progress.  pc: "query" while it awaits queryFulfilled,
\* "saving" while register awaits AsyncStorage.setItem, "initiate" and
\* "getUser" while verifyOtp dispatches getUser.initiate and awaits it.
NoFlow ==
  [kind |-> "none", pc |-> "idle", d |-> 0,
   accessToken |-> null, refreshToken |-> null,  \* locals of login and verifyOtp
   registeredUser |-> null,                      \* local of register and verifyOtp
   user |-> null,                 \* userData of login, the user fetched by verifyOtp
   outcome |-> "none"]

Flows == {"login", "register", "verifyOtp", "logout", "getUser"}

\* the pair the server hands out at login and at verification
LoginPair == 7
VerifyPair == 8

\* the User object verifyOtp builds from the fields of the registered user
PartialUser(registeredUser) == 4 + registeredUser

Ok(kind, body) == Result(kind, "data", "none", "none", "200", body)

\* answers to the request of a handler: kind is "first" or "replay".  The
\* fields accessToken and refreshToken of a login body stand for
\* data.tokens.accessToken and data.tokens.refreshToken, the field user of a
\* register body for data.id.
FlowResponses(kind, ep) ==
  { Result(kind, "error", "401", "none", "401", NoBody),
    Result(kind, "error", "500", "none", "500", NoBody) }
  \cup
  CASE ep = "login" ->
         { Ok(kind, Body(LoginPair, RefreshBase + LoginPair, undefined, undefined, 1)),
           Ok(kind, Body(LoginPair, RefreshBase + LoginPair, undefined, undefined,
                         undefined)),
           Ok(kind, Body(undefined, undefined, undefined, undefined, 1)),
           Ok(kind, NoBody) }
    [] ep = "register" ->
         { Ok(kind, Body(undefined, undefined, undefined, undefined, 1)),
           Ok(kind, Body(undefined, undefined, undefined, undefined, undefined)) }
    [] ep = "verifyOtp" ->
         { Ok(kind, Body(VerifyPair, RefreshBase + VerifyPair, undefined, undefined,
                         undefined)),
           Ok(kind, Body(undefined, undefined, undefined, undefined, undefined)),
           Ok(kind, Body(null, null, undefined, undefined, undefined)),
           Ok(kind, NoBody) }
    [] ep = "getUser" ->
         { Ok(kind, Body(undefined, undefined, undefined, undefined, 2)),
           Ok(kind, Body(undefined, undefined, undefined, undefined, undefined)),
           Ok(kind, NoBody) }
    [] ep = "logout" ->
         { Ok(kind, NoBody) }

\* queryFulfilled resolves when the base query returned data, and rejects
\* when it returned an error or threw
Fulfilled(r) == ~r.threw /\ r.result.tag = "data"

\* a mutation is triggered from a screen, which is mounted only once the
\* store is hydrated (app/_layout.tsx); its request enters baseQueryWithReauth
FlowStart(kind, d) ==
  /\ auth.isHydrated
  /\ flow.pc \in {"idle", "done"}
  /\ kind = "verifyOtp" => d < NDispatch
  /\ Start(d, kind)
  /\ flow' = [NoFlow EXCEPT !.kind = kind, !.pc = "query", !.d = d]
  /\ UNCHANGED <<pending, failed, hyd, now>>

\* faulty variant: the user of the response is not tested
loginCompleteTokensOnly(accessToken, refreshToken, userData) ==
  Truthy(accessToken) /\ Truthy(refreshToken)

\* src/services/apiSlice.ts line 362
loginComplete(accessToken, refreshToken, userData) ==
  Truthy(accessToken) /\ Truthy(refreshToken) /\ Truthy(userData)

\* login.onQueryStarted, src/services/apiSlice.ts lines 347-394.  When
\* queryFulfilled rejects, or the body is empty so that data.tokens throws,
\* the catch block logs and dispatches nothing.
LoginFulfilled(r) ==
  LET data == r.result.body
      payload == [tokens |-> [accessToken |-> data.accessToken,
                              refreshToken |-> data.refreshToken],
                  user |-> data.user, isAuthenticated |-> TRUE]
  IN /\ IF ~Fulfilled(r) \/ data.isNull
          THEN /\ flow' = [flow EXCEPT !.pc = "done", !.outcome = "failed"]
               /\ UNCHANGED <<auth, storage>>
          ELSE IF loginComplete(data.accessToken, data.refreshToken, data.user)
                 THEN /\ auth' = setAuthData(auth, payload)
                      /\ storage' = setAuthDataPersist(storage, payload)
                      /\ flow' = [flow EXCEPT !.pc = "done", !.outcome = "loggedIn",
                                              !.accessToken = data.accessToken,
                                              !.refreshToken = data.refreshToken,
                                              !.user = data.user]
                 ELSE /\ auth' = logout(auth)
                      /\ storage' = logoutPersist(storage)
                      /\ flow' = [flow EXCEPT !.pc = "done", !.outcome = "missing"]

\* getUser has no onQueryStarted: the result goes to the screen that asked
GetUserFetched(r) ==
  /\ flow' = [flow EXCEPT !.pc = "done",
                          !.outcome = IF Fulfilled(r) THEN "fetched" ELSE "failed"]
  /\ UNCHANGED <<auth, storage>>

\* register.onQueryStarted, lines 389-427: up to the awaited setItem
RegisterFulfilled(r) ==
  LET data == r.result.body
  IN /\ IF Fulfilled(r) /\ ~data.isNull /\ Truthy(data.user)
          THEN flow' = [flow EXCEPT !.pc = "saving", !.registeredUser = data.user]
          ELSE flow' = [flow EXCEPT !.pc = "done", !.outcome = "failed"]
     /\ UNCHANGED <<auth, storage>>

\* verifyOtp.onQueryStarted, lines 455-494: up to getUser.initiate
VerifyOtpFulfilled(r) ==
  LET tokens == r.result.body
      registeredUser == auth.registeredUser
      payload == [tokens |-> [accessToken |-> tokens.accessToken,
                              refreshToken |-> tokens.refreshToken],
                  user |-> PartialUser(registeredUser), isAuthenticated |-> TRUE]
  IN IF ~Fulfilled(r) \/ tokens.isNull \/ ~Truthy(registeredUser)
       THEN /\ auth' = logout(auth)
            /\ storage' = logoutPersist(storage)
            /\ flow' = [flow EXCEPT !.pc = "done", !.outcome = "failed"]
       ELSE /\ auth' = setAuthData(auth, payload)
            /\ storage' = setAuthDataPersist(storage, payload)
            /\ flow' = [flow EXCEPT !.pc = "initiate",
                                    !.accessToken = tokens.accessToken,
                                    !.refreshToken = tokens.refreshToken,
                                    !.registeredUser = registeredUser]

\* verifyOtp.onQueryStarted, lines 506-534: the result of getUser
GetUserSettled(r) ==
  LET data == r.result.body
      payload == [tokens |-> [accessToken |-> flow.accessToken,
                              refreshToken |-> flow.refreshToken],
                  user |-> data.user, isAuthenticated |-> TRUE]
  IN IF Fulfilled(r) /\ ~data.isNull
       THEN /\ auth' = setRegisteredUser(setAuthData(auth, payload),
                                         [user |-> null, isRegistered |-> FALSE])
            /\ storage' = setAuthDataPersist(storage, payload)
            /\ flow' = [flow EXCEPT !.pc = "done", !.user = data.user,
                                    !.outcome = "verified"]
       ELSE /\ auth' = logout(auth)
            /\ storage' = logoutPersist(storage)
            /\ flow' = [flow EXCEPT !.pc = "done", !.outcome = "getUserFailed"]

\* logout.onQueryStarted, lines 347-366: logout is dispatched whether the
\* request succeeded or not
LogoutSettled(r) ==
  /\ auth' = logout(auth)
  /\ storage' = logoutPersist(storage)
  /\ flow' = [flow EXCEPT !.pc = "done", !.outcome = "loggedOut"]

\* baseQueryWithReauth has returned to the handler that awaits it
FlowOnResult ==
  /\ flow.pc \in {"query", "getUser"}
  /\ returned.d = flow.d
  /\ CASE flow.pc = "getUser" -> GetUserSettled(returned)
       [] flow.pc = "query" /\ flow.kind = "login" -> LoginFulfilled(returned)
       [] flow.pc = "query" /\ flow.kind = "register" -> RegisterFulfilled(returned)
       [] flow.pc = "query" /\ flow.kind = "verifyOtp" -> VerifyOtpFulfilled(returned)
       [] flow.pc = "query" /\ flow.kind = "logout" -> LogoutSettled(returned)
       [] flow.pc = "query" /\ flow.kind = "getUser" -> GetUserFetched(returned)
  /\ returned' = NoReturn
  /\ UNCHANGED <<mutex, slot, issued, refreshTotal, pending, failed, hyd, now>>

\* register.onQueryStarted, lines 412-432: the setItem of the record settles
\* (a rejection is caught), then setRegisteredUser is dispatched
RegisterSaved(ok) ==
  /\ flow.pc = "saving"
  /\ storage' = IF ok
                  THEN Apply(storage,
                             setItem("registeredUserData",
                                     RegJson(flow.registeredUser, TimeIndex(now))))
                  ELSE storage
  /\ auth' = setRegisteredUser(auth, [user |-> flow.registeredUser,
                                      isRegistered |-> TRUE])
  /\ flow' = [flow EXCEPT !.pc = "done", !.outcome = "registered"]
  /\ UNCHANGED <<mutex, slot, issued, refreshTotal, returned,
                 pending, failed, hyd, now>>

\* verifyOtp.onQueryStarted, lines 499-503: getUser.initiate enters
\* baseQueryWithReauth
GetUserInitiate ==
  /\ flow.pc = "initiate"
  /\ Start(flow.d + 1, "getUser")
  /\ flow' = [flow EXCEPT !.pc = "getUser", !.d = flow.d + 1]
  /\ UNCHANGED <<pending, failed, hyd, now>>

\* ------------------------------------------------------- dispatched actions
\* payloads of setAuthData and of setRegisteredUser
AuthPayloads ==
  { [tokens |-> [accessToken |-> n, refreshToken |-> RefreshBase + n],
     user |-> u, isAuthenticated |-> TRUE] : n \in {1, 2}, u \in {1, undefined} }

RegisteredPayloads ==
  { [user |-> u, isRegistered |-> b] : u \in {null, 1}, b \in BOOLEAN }

\* dispatch(setAuthData(payload)): the reducer runs and its AsyncStorage
\* calls are issued
DispatchSetAuthData(payload) ==
  /\ Len(pending) + 4 <= MaxPending
  /\ auth' = setAuthData(auth, payload)
  /\ pending' = pending \o setAuthDataOps(payload)
  /\ UNCHANGED <<storage, mutex, slot, issued, refreshTotal, returned,
                 failed, hyd, flow, now>>

DispatchSetRegisteredUser(payload) ==
  /\ auth' = setRegisteredUser(auth, payload)
  /\ UNCHANGED <<storage, mutex, slot, issued, refreshTotal, returned,
                 pending, failed, hyd, flow, now>>

DispatchLogout ==
  /\ Len(pending) + 4 <= MaxPending
  /\ auth' = logout(auth)
  /\ pending' = pending \o logoutOps
  /\ UNCHANGED <<storage, mutex, slot, issued, refreshTotal, returned,
                 failed, hyd, flow, now>>

DispatchSetHydrated ==
  /\ auth' = setHydrated(auth)
  /\ UNCHANGED <<storage, mutex, slot, issued, refreshTotal, returned,
                 pending, failed, hyd, flow, now>>

\* faulty variant: a rejected call undoes the transition that issued it
catchRollsBack(state) ==
  [state EXCEPT !.accessToken = null, !.refreshToken = null, !.user = null,
                !.isAuthenticated = FALSE]

\* the .catch handler of every call the reducers make: console.error, the
\* state is left as it is
catchLogsError(state) == state

\* the oldest outstanding AsyncStorage call settles: it takes effect, or it
\* is rejected and its .catch logs the error
StorageSettles(ok) ==
  /\ pending # <<>>
  /\ storage' = IF ok THEN Apply(storage, Head(pending)) ELSE storage
  /\ failed' = (failed \/ ~ok \/ Refused(Head(pending)))
  /\ pending' = Tail(pending)
  /\ auth' = IF ok /\ ~Refused(Head(pending)) THEN auth ELSE catchLogsError(auth)
  /\ UNCHANGED <<mutex, slot, issued, refreshTotal, returned,
                 hyd, flow, now>>

\* ------------------------------------------------------------ specification
\* The store and AsyncStorage once the hydrateAuthState run of start-up has
\* finished: nothing was persisted, or the persisted session of user 1 with
\* the first credential pair was installed by setAuthData.
HydratedLoggedOut == setHydrated(initialState)

FirstPayload ==
  [tokens |-> [accessToken |-> 1, refreshToken |-> RefreshBase + 1],
   user |-> 1, isAuthenticated |-> TRUE]

Init ==
  /\ \/ /\ auth = HydratedLoggedOut
        /\ storage = EmptyStorage
     \/ /\ auth = setAuthData(HydratedLoggedOut, FirstPayload)
        /\ storage = setAuthDataPersist(EmptyStorage, FirstPayload)
  /\ mutex = NewMutex
  /\ slot = [d \in Dispatches |-> IdleSlot]
  /\ issued = 1
  /\ refreshTotal = 0
  /\ returned = NoReturn
  /\ pending = <<>>
  /\ failed = FALSE
  /\ hyd = HydDone
  /\ flow = NoFlow
  /\ now = TimePoints[Len(TimePoints)]

Next ==
  \/ \E d \in Dispatches, e \in Endpoints : Start(d, e) /\ UNCHANGED appVars
  \/ \E d \in Dispatches, resp \in Responses("first") :
          AnonRespond(d, resp) /\ UNCHANGED appVars
  \/ \E d \in Dispatches : Unlocked(d) /\ UNCHANGED appVars
  \/ \E d \in Dispatches, resp \in Responses("first") :
          FirstRespond(d, resp) /\ UNCHANGED appVars
  \/ \E d \in Dispatches : Acquired(d) /\ UNCHANGED appVars
  \/ \E d \in Dispatches,
        refreshResult \in RefreshIssuing(issued + 1) \cup RefreshRefusing :
          RefreshRespond(d, refreshResult) /\ UNCHANGED appVars
  \/ \E d \in Dispatches, resp \in Responses("retry") \cup Responses("replay") :
          ReplayRespond(d, resp) /\ UNCHANGED appVars
  \/ \E d \in Dispatches : Throws(d) /\ UNCHANGED appVars

Spec == Init /\ [][Next]_vars

\* ------------------------------------------------------------------ progress
\* The dispatcher when every request is answered and every promise of the
\* mutex is settled: an authenticated and an anonymous endpoint, each
\* request answered by success, by 401 or by a parsing error over 401, the
\* refresh accepted or refused, no baseQuery call rejecting.
LiveEndpoints == {"getUser", "checkUsernameAvailability"}

LiveResponses(kind) ==
  { Result(kind, "data", "none", "none", "200", NoBody),
    Result(kind, "error", "401", "none", "401", NoBody),
    Result(kind, "error", "PARSING_ERROR", "401", "401", NoBody) }

LiveRefreshResponses(n) ==
  { Result("refresh", "data", "none", "none", "200",
           Body(n, RefreshBase + n, undefined, undefined, undefined)),
    Result("refresh", "error", "401", "none", "401", NoBody) }

\* the steps that take call d forward once it has begun
Progress(d) ==
  \/ \E resp \in LiveResponses("first") : AnonRespond(d, resp) /\ UNCHANGED appVars
  \/ Unlocked(d) /\ UNCHANGED appVars
  \/ \E resp \in LiveResponses("first") : FirstRespond(d, resp) /\ UNCHANGED appVars
  \/ Acquired(d) /\ UNCHANGED appVars
  \/ \E refreshResult \in LiveRefreshResponses(issued + 1) :
          RefreshRespond(d, refreshResult) /\ UNCHANGED appVars
  \/ \E resp \in LiveResponses("retry") \cup LiveResponses("replay") :
          ReplayRespond(d, resp) /\ UNCHANGED appVars

LiveNext ==
  \/ \E d \in Dispatches, e \in LiveEndpoints : Start(d, e) /\ UNCHANGED appVars
  \/ \E d \in Dispatches : Progress(d)

LiveSpec ==
  Init /\ [][LiveNext]_vars /\ \A d \in Dispatches : WF_vars(Progress(d))

\* ------------------------------------------- the earlier baseQueryWithReauth
\* The baseQueryWithReauth of unnamed/part_005, whose first branch under the
\* mutex tests only that an access token is in the state: release() is
\* called, the original request is sent again, and the finally block calls
\* release() a second time.  Its endpoints are getUser and login, neither
\* with endpoint-level extraOptions.
Part5Endpoints == {"getUser", "login"}

\* part_005 lines 89-110: the branch taken under the mutex
PathOf5(accessTokenAfterMutex, refreshToken) ==
  IF Truthy(accessTokenAfterMutex)
    THEN "retry"
    ELSE IF ~Truthy(refreshToken) THEN "logout" ELSE "refresh"

\* part_005 lines 83-125: acquire() has resolved; up to the next await or to
\* the return
Acquired5(d) ==
  /\ slot[d].pc = "acquiring"
  /\ mutex.holder = d
  /\ LET refreshToken == auth.refreshToken
         accessTokenAfterMutex == auth.accessToken
         path == PathOf5(accessTokenAfterMutex, refreshToken)
         early == path = "retry"
         m1 == IF early THEN release(mutex, d, FALSE) ELSE mutex
         s1 == [slot[d] EXCEPT !.acquired = TRUE, !.path = path, !.called = early,
                               !.tokAtAcquire = accessTokenAfterMutex,
                               !.rtAtAcquire = refreshToken]
     IN CASE path = "retry" ->
               /\ slot' = [slot EXCEPT ![d] =
                    [s1 EXCEPT !.pc = "retrySent",
                               !.replayTok = prepareHeaders(auth.accessToken, ThunkExtra),
                               !.nSends = @ + 1]]
               /\ mutex' = m1
               /\ returned' = NoReturn
               /\ UNCHANGED <<auth, storage, refreshTotal>>
          [] path = "logout" ->
               /\ auth' = logout(auth)
               /\ storage' = logoutPersist(storage)
               /\ mutex' = finallyRelease(m1, d, s1.called)
               /\ Return(d, [s1 EXCEPT !.acts = Append(@, "logout"), !.called = TRUE],
                         s1.firstRes, s1.firstRes, FALSE)
               /\ UNCHANGED refreshTotal
          [] path = "refresh" ->
               /\ slot' = [slot EXCEPT ![d] =
                    [s1 EXCEPT !.pc = "refreshSent", !.refreshHdr = refreshToken,
                               !.refreshBearer =
                                  prepareHeaders(auth.accessToken, ThunkExtra),
                               !.nRefresh = @ + 1]]
               /\ refreshTotal' = refreshTotal + 1
               /\ mutex' = m1
               /\ returned' = NoReturn
               /\ UNCHANGED <<auth, storage>>
  /\ UNCHANGED issued

\* The state holds an access token exactly when it holds a refresh token
\* (setAuthData stores both, logout clears both), so the refresh branch of
\* part_005 is never entered and no step follows it.
Part5Next ==
  \/ \E d \in Dispatches, e \in Part5Endpoints : Start(d, e) /\ UNCHANGED appVars
  \/ \E d \in Dispatches : Unlocked(d) /\ UNCHANGED appVars
  \/ \E d \in Dispatches, resp \in Responses("first") :
          FirstRespond(d, resp) /\ UNCHANGED appVars
  \/ \E d \in Dispatches : Acquired5(d) /\ UNCHANGED appVars
  \/ \E d \in Dispatches, resp \in Responses("retry") :
          ReplayRespond(d, resp) /\ UNCHANGED appVars
  \/ \E d \in Dispatches : Throws(d) /\ UNCHANGED appVars

Part5Spec == Init /\ [][Part5Next]_vars

\* ----------------------------------------------- the store and AsyncStorage
\* The reducers of the slice dispatched in any order with any payload, from
\* the initial state of the slice over an empty AsyncStorage, each
\* AsyncStorage call settling later and in the order issued.
StoreInit ==
  /\ auth = initialState
  /\ storage = EmptyStorage
  /\ mutex = NewMutex
  /\ slot = [d \in Dispatches |-> IdleSlot]
  /\ issued = 1
  /\ refreshTotal = 0
  /\ returned = NoReturn
  /\ pending = <<>>
  /\ failed = FALSE
  /\ hyd = HydIdle
  /\ flow = NoFlow
  /\ now = TimePoints[Len(TimePoints)]

StoreNext ==
  \/ \E payload \in AuthPayloads : DispatchSetAuthData(payload)
  \/ \E payload \in RegisteredPayloads : DispatchSetRegisteredUser(payload)
  \/ DispatchLogout
  \/ DispatchSetHydrated
  \/ \E ok \in BOOLEAN : StorageSettles(ok)

StoreSpec == StoreInit /\ [][StoreNext]_vars

\* ------------------------------------------------------------ the application
\* What AsyncStorage may hold when the application starts: each token or
\* none, a user text (of a user, of null, or not JSON) or none, and a
\* registered-user record (not JSON, without timestamp, older than the
\* expiration time, or exactly as old) or none.
StorageContents ==
  { [accessToken |-> a, refreshToken |-> r, user |-> u, registeredUserData |-> g] :
      a \in {null, 1}, r \in {null, RefreshBase + 1},
      u \in {null, BadJson, JSONstringify(null), JSONstringify(1)},
      g \in {null, BadJson, RegJson(1, 0), RegJson(1, 1), RegJson(1, 2)} }

\* The application from its start: the store holds the initial state, the
\* root layout dispatches hydrateAuthState, and once the store is hydrated
\* the screens trigger mutations one at a time.
AppInit ==
  /\ auth = initialState
  /\ storage \in StorageContents
  /\ mutex = NewMutex
  /\ slot = [d \in Dispatches |-> IdleSlot]
  /\ issued = 1
  /\ refreshTotal = 0
  /\ returned = NoReturn
  /\ pending = <<>>
  /\ failed = FALSE
  /\ hyd = HydIdle
  /\ flow = NoFlow
  /\ now = TimePoints[Len(TimePoints)]

AppNext ==
  \/ HydrateStart
  \/ \E ok \in BOOLEAN, dispatchThrows \in BOOLEAN : HydGetItem(ok, dispatchThrows)
  \/ \E ok \in BOOLEAN : HydSettled(ok)
  \/ \E kind \in Flows, d \in Dispatches : FlowStart(kind, d)
  \/ \E d \in {c \in Dispatches : slot[c].pc = "firstSent"} :
        \E resp \in FlowResponses("first", slot[d].ep) :
          FirstRespond(d, resp) /\ UNCHANGED appVars
  \/ \E d \in Dispatches : Acquired(d) /\ UNCHANGED appVars
  \/ \E d \in Dispatches,
        refreshResult \in RefreshIssuing(issued + 1) \cup RefreshRefusing :
          RefreshRespond(d, refreshResult) /\ UNCHANGED appVars
  \/ \E d \in {c \in Dispatches : slot[c].pc = "replaySent"} :
        \E resp \in FlowResponses("replay", slot[d].ep) :
          ReplayRespond(d, resp) /\ UNCHANGED appVars
  \/ \E d \in Dispatches : Throws(d) /\ UNCHANGED appVars
  \/ FlowOnResult
  \/ \E ok \in BOOLEAN : RegisterSaved(ok)
  \/ GetUserInitiate

AppSpec == AppInit /\ [][AppNext]_vars

\* The application started again and again as time passes: each start
\* mounts the root layout, which dispatches the thunk, at an instant not
\* earlier than the last; Date.now() of line 58 is the instant of the start.
MaxRuns == 3

Instants == {TimePoints[k] : k \in 1..Len(TimePoints)}

Rehydrate(t) ==
  /\ hyd.pc = "done"
  /\ hyd.run < MaxRuns
  /\ t >= now
  /\ hyd' = [HydIdle EXCEPT !.pc = "getAccessToken", !.run = hyd.run + 1]
  /\ now' = t
  /\ UNCHANGED <<auth, storage, mutex, slot, issued, refreshTotal, returned,
                 pending, failed, flow>>

\* AsyncStorage holds a record that register.onQueryStarted persisted with
\* Date.now() as its timestamp, at an instant not later than the first start
AgingInit ==
  /\ auth = initialState
  /\ storage \in {c \in StorageContents :
                    c.registeredUserData \in {RegJson(1, 1), RegJson(1, 2)}}
  /\ mutex = NewMutex
  /\ slot = [d \in Dispatches |-> IdleSlot]
  /\ issued = 1
  /\ refreshTotal = 0
  /\ returned = NoReturn
  /\ pending = <<>>
  /\ failed = FALSE
  /\ hyd = HydIdle
  /\ flow = NoFlow
  /\ now \in {t \in Instants : t >= RegTimestamp(storage.registeredUserData)}

AgingNext ==
  \/ HydrateStart
  \/ \E ok \in BOOLEAN, dispatchThrows \in BOOLEAN : HydGetItem(ok, dispatchThrows)
  \/ \E ok \in BOOLEAN : HydSettled(ok)
  \/ \E t \in Instants : Rehydrate(t)

AgingSpec == AgingInit /\ [][AgingNext]_vars

\* The application with its root layout mounted a second time: the second
\* run of the thunk finds the store hydrated and the screens mounted, so
\* that a login or an authenticated request (getUser) proceeds while the
\* run awaits its reads.
RaceFlows == {"login", "getUser"}

RaceNext ==
  \/ HydrateStart
  \/ \E ok \in BOOLEAN, dispatchThrows \in BOOLEAN : HydGetItem(ok, dispatchThrows)
  \/ \E ok \in BOOLEAN : HydSettled(ok)
  \/ Remount
  \/ \E kind \in RaceFlows, d \in Dispatches : FlowStart(kind, d)
  \/ \E d \in {c \in Dispatches : slot[c].pc = "firstSent"} :
        \E resp \in FlowResponses("first", slot[d].ep) :
          FirstRespond(d, resp) /\ UNCHANGED appVars
  \/ \E d \in Dispatches : Acquired(d) /\ UNCHANGED appVars
  \/ \E d \in Dispatches,
        refreshResult \in RefreshIssuing(issued + 1) \cup RefreshRefusing :
          RefreshRespond(d, refreshResult) /\ UNCHANGED appVars
  \/ \E d \in {c \in Dispatches : slot[c].pc = "replaySent"} :
        \E resp \in FlowResponses("replay", slot[d].ep) :
          ReplayRespond(d, resp) /\ UNCHANGED appVars
  \/ FlowOnResult

\* AsyncStorage at the start holds the pair of an earlier session, with its
\* user or without
RaceInit ==
  /\ AppInit
  /\ storage.accessToken = 1
  /\ storage.refreshToken = RefreshBase + 1
  /\ storage.user \in {null, JSONstringify(1)}
  /\ storage.registeredUserData = null

RaceSpec == RaceInit /\ [][RaceNext]_vars

\* The hydration run alone, from the start of the application to the end of
\* the thunk; nothing else is dispatched meanwhile, no screen being mounted
\* before the store is hydrated.  Every AsyncStorage call of the run settles.
HydrationNext ==
  \/ HydrateStart
  \/ \E ok \in BOOLEAN, dispatchThrows \in BOOLEAN : HydGetItem(ok, dispatchThrows)
  \/ \E ok \in BOOLEAN : HydSettled(ok)

HydrationLive == AppInit /\ [][HydrationNext]_vars /\ WF_vars(HydrationNext)

\* The hydration run of start-up followed by the run of a remount, nothing
\* else being dispatched in between.
RemountNext ==
  \/ HydrateStart
  \/ \E ok \in BOOLEAN, dispatchThrows \in BOOLEAN : HydGetItem(ok, dispatchThrows)
  \/ \E ok \in BOOLEAN : HydSettled(ok)
  \/ Remount

RemountSpec == AppInit /\ [][RemountNext]_vars

\* ================================================================== claims
InFlight(d) == slot[d].pc \notin {"idle", "done"}

HasReturned == returned.d # 0

\* the calls whose first attempt carried bearer token T and was unauthorized
Batch(T) == {d \in Dispatches : slot[d].unauth /\ slot[d].firstTok = T}

\* C1: single-flight.  When every call whose first attempt carried the same
\* access token T and got 401 has returned (none by an exception), exactly
\* one of them has sent a /refresh-token request, and if that refresh
\* installed a new access token every one of them sent its last request with
\* that token.
C1_SingleFlight ==
  \A T \in 1..(NDispatch + 1) :
    LET B == Batch(T)
        R == {d \in B : slot[d].nRefresh > 0}
    IN (B # {} /\ \A d \in B : slot[d].pc = "done" /\ ~slot[d].threw) =>
         /\ Cardinality(R) = 1
         /\ \A r \in R : Truthy(slot[r].newA) =>
               \A d \in B : slot[d].replayTok = slot[r].newA

\* C2: stale-retry dedup.  A call that got 401 for a first attempt sent with
\* token T, and that reads a non-null access token different from T once it
\* holds the mutex, takes Path 1: it sends no /refresh-token request, sends
\* the original request once more with the token it read, and returns the
\* result of that retry.
C2_StaleRetryDedup ==
  /\ \A d \in Dispatches :
       (/\ slot[d].acquired
        /\ Truthy(slot[d].firstTok)
        /\ Truthy(slot[d].tokAtAcquire)
        /\ slot[d].tokAtAcquire # slot[d].firstTok) =>
         /\ slot[d].path = "retry"
         /\ slot[d].nRefresh = 0
         /\ slot[d].replayTok = slot[d].tokAtAcquire
  /\ (/\ HasReturned
      /\ ~returned.threw
      /\ returned.call.acquired
      /\ Truthy(returned.call.firstTok)
      /\ Truthy(returned.call.tokAtAcquire)
      /\ returned.call.tokAtAcquire # returned.call.firstTok) =>
       /\ returned.call.nRefresh = 0
       /\ returned.call.nSends = 2
       /\ returned.result.kind = "retry"

\* C3: at most one /refresh-token request is in flight, and only the call
\* that holds the mutex has one in flight.
C3_OneRefreshInFlight ==
  /\ Cardinality({d \in Dispatches : slot[d].pc = "refreshSent"}) <= 1
  /\ \A d \in Dispatches : slot[d].pc = "refreshSent" => mutex.holder = d

\* a refresh is in flight while another call that got 401 queues for the mutex
C3_Witness ==
  \E d, e \in Dispatches :
    /\ slot[d].pc = "refreshSent"
    /\ slot[e].pc = "acquiring"
    /\ mutex.queue = <<e>>

InQueue(d) == \E i \in 1..Len(mutex.queue) : mutex.queue[i] = d

\* C4: a call that is not inside the 401-handling section neither holds the
\* mutex nor queues for it; in particular a call that acquired the mutex has
\* released it when it returns or throws, and the mutex is locked only while
\* its holder is inside the section.
C4_MutexReleased ==
  /\ \A d \in Dispatches :
       slot[d].pc \in {"idle", "anonSent", "waitUnlock", "firstSent", "done"} =>
         mutex.holder # d /\ ~InQueue(d)
  /\ isLocked(mutex) =>
       slot[mutex.holder].pc \in {"acquiring", "refreshSent", "replaySent"}
  /\ (HasReturned /\ returned.call.acquired) =>
       mutex.holder # returned.d /\ returned.call.called

\* a call that held the mutex leaves by an exception, and the mutex is free
C4_Witness ==
  /\ HasReturned
  /\ returned.threw
  /\ returned.call.acquired
  /\ returned.call.nRefresh = 1
  /\ ~isLocked(mutex)

\* C5: a call for an endpoint whose extraOptions carry requiresAuth false is
\* sent at once, never waits for the mutex, never acquires or releases it,
\* sends no /refresh-token request and dispatches nothing to the store; what
\* it returns is the transport result of its single request, 401 included.
C5_AnonymousBypass ==
  /\ \A d \in Dispatches :
       (InFlight(d) /\ requiresAuthOf(slot[d].ep) = "false") =>
         /\ slot[d].pc = "anonSent"
         /\ mutex.holder # d /\ ~InQueue(d)
         /\ ~slot[d].acquired /\ ~slot[d].called
         /\ slot[d].nRefresh = 0 /\ slot[d].nSends = 1
         /\ slot[d].acts = <<>>
  /\ (HasReturned /\ requiresAuthOf(returned.call.ep) = "false") =>
       /\ ~returned.call.acquired /\ ~returned.call.called
       /\ returned.call.nRefresh = 0 /\ returned.call.nSends = 1
       /\ returned.call.acts = <<>>
       /\ ~returned.threw =>
            returned.result = returned.last /\ returned.result.kind = "first"

\* an anonymous call that began while the mutex was locked returns a 401
\* while the refresh that holds the mutex is still in flight
C5_Witness ==
  /\ HasReturned
  /\ requiresAuthOf(returned.call.ep) = "false"
  /\ returned.call.lockedAtStart
  /\ returned.result.status = "401"
  /\ isLocked(mutex)
  /\ slot[mutex.holder].pc = "refreshSent"
  /\ refreshTotal = 1

\* C6: the login, register and verify-otp calls are anonymous calls: they
\* are sent at once without waiting for the mutex, and a 401 answer makes
\* them neither acquire the mutex, nor send /refresh-token, nor dispatch
\* logout.
C6_LoginIsAnonymous ==
  /\ \A d \in Dispatches :
       (InFlight(d) /\ slot[d].ep \in {"login", "register", "verifyOtp"}) =>
         /\ ~(slot[d].pc = "waitUnlock" /\ isLocked(mutex))
         /\ slot[d].pc # "acquiring" /\ ~slot[d].acquired
         /\ slot[d].nRefresh = 0
         /\ slot[d].acts = <<>>
  /\ (HasReturned /\ returned.call.ep \in {"login", "register", "verifyOtp"}) =>
       /\ ~returned.call.acquired
       /\ returned.call.nRefresh = 0
       /\ returned.call.acts = <<>>

\* C7: a call that got 401 and finds no refresh token in the state once it
\* holds the mutex sends no /refresh-token request, dispatches logout (the
\* state is unauthenticated afterwards) and returns its first result as it
\* was.
C7_NoRefreshToken ==
  /\ \A d \in Dispatches :
       (InFlight(d) /\ slot[d].acquired) => Truthy(slot[d].rtAtAcquire)
  /\ (HasReturned /\ returned.call.acquired /\ ~Truthy(returned.call.rtAtAcquire)) =>
       /\ returned.call.nRefresh = 0
       /\ returned.call.nSends = 1
       /\ returned.call.acts = <<"logout">>
       /\ ~auth.isAuthenticated
       /\ auth.accessToken = null /\ auth.refreshToken = null
       /\ ~returned.threw
       /\ returned.result = returned.call.firstRes
       /\ returned.result.kind = "first"
       /\ isUnauthorized(returned.result)

\* after a failed refresh logged the user out, a queued call finds no refresh
\* token and gets its own parsing-error 401 back
C7_Witness ==
  /\ HasReturned
  /\ returned.call.acquired
  /\ ~Truthy(returned.call.rtAtAcquire)
  /\ Truthy(returned.call.firstTok)
  /\ returned.result.status = "PARSING_ERROR"
  /\ refreshTotal = 1

\* C8: when the refresh fails (the call rejects aside), logout is dispatched,
\* the original request is not sent again, and the call returns the result
\* of the refresh request, which is tagged as an error.
C8_RefreshFailure ==
  (HasReturned /\ ~returned.threw /\ returned.call.nRefresh = 1
     /\ returned.call.pc = "refreshSent") =>
    /\ returned.call.acts = <<"logout">>
    /\ ~auth.isAuthenticated
    /\ returned.call.nSends = 1
    /\ returned.result.kind = "refresh"
    /\ returned.result.tag = "error"

\* a 200 refresh response that carries a usable token pair in one of the two
\* accepted shapes and nothing in the other
HasBothTokens(r) ==
  /\ r.tag = "data" /\ r.http = "200" /\ ~r.body.isNull
  /\ \/ /\ Truthy(r.body.accessToken) /\ Truthy(r.body.refreshToken)
        /\ r.body.access_token = undefined /\ r.body.refresh_token = undefined
     \/ /\ Truthy(r.body.access_token) /\ Truthy(r.body.refresh_token)
        /\ r.body.accessToken = undefined /\ r.body.refreshToken = undefined

\* C9: a refresh answered with 200 and both tokens is never treated as a
\* failure; when the replay is sent the store already holds the new pair
\* and is authenticated, the replay carries the new access token and is the
\* second and last sending of the original request, and the result of the
\* replay is what the call returns.
C9_RefreshSuccess ==
  /\ \A d \in Dispatches :
       slot[d].pc = "replaySent" =>
         /\ Truthy(slot[d].newA) /\ Truthy(slot[d].newR)
         /\ slot[d].authAtReplay.accessToken = slot[d].newA
         /\ slot[d].authAtReplay.refreshToken = slot[d].newR
         /\ slot[d].authAtReplay.isAuthenticated
         /\ slot[d].replayTok = slot[d].newA
         /\ slot[d].nSends = 2 /\ slot[d].nRefresh = 1
         /\ slot[d].acts = <<"setAuthData">>
  /\ (HasReturned /\ returned.result.kind = "refresh") =>
       ~HasBothTokens(returned.result)
  /\ (HasReturned /\ ~returned.threw /\ returned.call.pc = "replaySent") =>
       /\ returned.result = returned.last
       /\ returned.result.kind = "replay"
       /\ returned.call.nSends = 2

\* after a successful refresh the replay is answered with 401 again, and
\* that 401 is what the call returns
C9_Witness ==
  /\ HasReturned
  /\ returned.call.pc = "replaySent"
  /\ returned.call.replayTok = 2
  /\ auth.accessToken = 2 /\ auth.refreshToken = RefreshBase + 2
  /\ returned.result.kind = "replay"
  /\ returned.result.status = "401"

\* C10: on the refresh-success path the mutex is released before the replay
\* is sent: it is not held by the call while its replay is in flight.
C10_ReleasedBeforeReplay ==
  \A d \in Dispatches : slot[d].pc = "replaySent" => mutex.holder # d

C12_OnlyUnauthorizedRefreshes ==
  [][\A d \in Dispatches :
       (slot[d].pc = "firstSent" /\ slot'[d].pc # "firstSent"
          /\ ~returned'.threw) =>
         IF slot'[d].pc = "acquiring"
           THEN /\ slot'[d].firstRes.tag = "error"
                /\ \/ slot'[d].firstRes.status = "401"
                   \/ /\ slot'[d].firstRes.status = "PARSING_ERROR"
                      /\ slot'[d].firstRes.originalStatus = "401"
           ELSE /\ slot'[d].pc = "done"
                /\ returned'.d = d
                /\ returned'.result = returned'.call.firstRes
                /\ returned'.result.kind = "first"
                /\ ~(/\ returned'.result.tag = "error"
                     /\ \/ returned'.result.status = "401"
                        \/ /\ returned'.result.status = "PARSING_ERROR"
                           /\ returned'.result.originalStatus = "401")
                /\ ~returned'.call.acquired
                /\ returned'.call.nRefresh = 0
                /\ returned'.call.nSends = 1
                /\ returned'.call.acts = <<>>
                /\ UNCHANGED <<auth, storage, mutex, issued, refreshTotal>>]_vars

\* a parsing error over a 200 answer is returned as it is while another
\* call holds the mutex for its refresh
C12_Witness ==
  /\ HasReturned
  /\ returned.call.pc = "firstSent"
  /\ returned.result.status = "PARSING_ERROR"
  /\ returned.result.originalStatus = "200"
  /\ isLocked(mutex)
  /\ refreshTotal = 1

\* C13: whatever reducers of the slice are dispatched, in whatever order
\* and with whatever payload, the state is never both authenticated and
\* registered, and an authenticated state holds no registered user.
C13_StateExclusivity ==
  /\ ~(auth.isAuthenticated /\ auth.isRegistered)
  /\ auth.isAuthenticated => auth.registeredUser = null

\* setRegisteredUser was dispatched on a session that setAuthData had
\* installed and persisted
C13_Witness ==
  /\ auth.isRegistered
  /\ auth.registeredUser = 1
  /\ ~auth.isAuthenticated
  /\ storage.accessToken = 1
  /\ pending = <<>>

\* C14: an authenticated state holds an access token and a refresh token,
\* whatever the server answers to login, register, verify-otp, getUser,
\* logout and refresh-token.
C14_AuthenticatedHasTokens ==
  auth.isAuthenticated =>
    /\ auth.accessToken \notin {null, undefined}
    /\ auth.refreshToken \notin {null, undefined}

\* C15: when verify-otp has returned a token pair with a registered user in
\* the state and the getUser call that follows has returned data, the
\* handler leaves the state authenticated with that pair and the fetched
\* user, and without registered user.
C15_VerifiedIsAuthenticated ==
  (/\ flow.kind = "verifyOtp"
   /\ flow.pc = "done"
   /\ flow.outcome = "verified"
   /\ Truthy(flow.accessToken)
   /\ Truthy(flow.refreshToken)) =>
    /\ auth.isAuthenticated
    /\ auth.accessToken = flow.accessToken
    /\ auth.refreshToken = flow.refreshToken
    /\ auth.user = (IF Truthy(flow.user) THEN flow.user ELSE null)
    /\ auth.registeredUser = null
    /\ ~auth.isRegistered

\* C16: once every AsyncStorage call issued by the reducers has settled,
\* none having been rejected, the persisted access token and refresh token
\* are those of the state (no key where the state holds null).
C16_MirrorConsistency ==
  (pending = <<>> /\ ~failed) =>
    /\ storage.accessToken = auth.accessToken
    /\ storage.refreshToken = auth.refreshToken

\* C17: isHydrated is false until the hydrateAuthState run has ended, is set
\* by the last step of that run and by no other step, and is never reset,
\* whatever is dispatched afterwards.
C17_HydratedOnce ==
  /\ [](auth.isHydrated <=> hyd.pc = "done")
  /\ [][auth.isHydrated => auth'.isHydrated]_vars
  /\ [][(~auth.isHydrated /\ auth'.isHydrated) =>
          (hyd.pc \notin {"idle", "done"} /\ hyd'.pc = "done")]_vars

\* the session that hydration installed has been logged out by a handler,
\* and the store is still hydrated
C17_Witness ==
  /\ hyd.branch = "authenticated"
  /\ flow.pc = "done"
  /\ flow.outcome \in {"missing", "loggedOut", "getUserFailed"}
  /\ ~auth.isAuthenticated
  /\ auth.isHydrated

\* C18: a hydration run that has begun ends, with isHydrated true, whatever
\* AsyncStorage holds and whichever of its reads, removals, parses and
\* dispatches fail.
C18_HydrationEnds ==
  (hyd.pc # "idle") ~> (hyd.pc = "done" /\ auth.isHydrated)

\* a run in which the dispatch threw and the removal that followed was
\* rejected has ended with isHydrated true
C18_Witness ==
  /\ hyd.pc = "done"
  /\ hyd.threw
  /\ hyd.rejected
  /\ auth.isHydrated

\* C19: at the end of the hydration run (no read rejected, no dispatch
\* thrown) the state is authenticated exactly when the three keys
\* accessToken, refreshToken and user were persisted and the user text is
\* JSON; the state then holds those tokens and that user, the three keys are
\* still persisted and the registered-user record is not.  When a read was
\* rejected the state is not authenticated.
C19_HydratesSession ==
  LET allPresent == /\ hyd.storedAccessToken # null
                    /\ hyd.storedRefreshToken # null
                    /\ hyd.storedUserJson # null
      parses == hyd.storedUserJson >= JsonBase
  IN (hyd.pc = "done" /\ flow = NoFlow /\ ~hyd.threw) =>
       IF hyd.branch = "none"
         THEN ~auth.isAuthenticated
         ELSE /\ auth.isAuthenticated <=> (allPresent /\ parses)
              /\ (allPresent /\ parses) =>
                   /\ auth.accessToken = hyd.storedAccessToken
                   /\ auth.refreshToken = hyd.storedRefreshToken
                   /\ auth.user = hyd.storedUserJson - JsonBase
                   /\ storage.accessToken = hyd.storedAccessToken
                   /\ storage.refreshToken = hyd.storedRefreshToken
                   /\ storage.user = hyd.storedUserJson
                   /\ storage.registeredUserData = null

\* a persisted session was installed and the registered-user record that
\* was persisted beside it, not yet expired, is gone
C19_Witness ==
  /\ hyd.pc = "done"
  /\ flow = NoFlow
  /\ auth.isAuthenticated
  /\ auth.accessToken = 1
  /\ auth.user = 1
  /\ hyd.storedRegisteredUserJson = RegJson(1, 2)
  /\ storage.registeredUserData = null

\* C20: when both tokens are persisted and the persisted user text is not
\* JSON, the run removes the three keys and goes on to the registered-user
\* record: with a record that is complete and not expired, it ends with
\* isRegistered true and registeredUser the data of the record.
C20_CorruptUserFallsThrough ==
  (/\ hyd.pc = "done"
   /\ flow = NoFlow
   /\ ~hyd.rejected
   /\ hyd.storedAccessToken # null
   /\ hyd.storedRefreshToken # null
   /\ hyd.storedUserJson = BadJson
   /\ hyd.storedRegisteredUserJson = RegJson(1, 2)) =>
    /\ storage.accessToken = null
    /\ storage.refreshToken = null
    /\ storage.user = null
    /\ auth.isRegistered
    /\ auth.registeredUser = 1

\* the run read the four keys and found no complete authenticated data
NoAuthDataRead ==
  /\ hyd.branch # "none"
  /\ ~(/\ Truthy(hyd.storedAccessToken)
       /\ Truthy(hyd.storedRefreshToken)
       /\ Truthy(hyd.storedUserJson))

\* C21: at the end of a hydration run that found no authenticated data and a
\* registered-user record with data and timestamp (no storage call rejected,
\* no dispatch thrown), with TTL = 7 days in milliseconds: when
\* now - timestamp > TTL the record is removed from AsyncStorage and the
\* state is not registered; when now - timestamp <= TTL, equality included,
\* isRegistered is true, registeredUser is the data of the record and the
\* record is still persisted.
C21_RegisteredExpiry ==
  LET rj == hyd.storedRegisteredUserJson
      TTL == 7 * 24 * 60 * 60 * 1000
  IN (/\ hyd.pc = "done" /\ flow = NoFlow
      /\ ~hyd.threw /\ ~hyd.rejected
      /\ NoAuthDataRead
      /\ rj >= RegBase
      /\ Truthy(RegData(rj)) /\ Truthy(RegTimestamp(rj))) =>
       IF now - RegTimestamp(rj) > TTL
         THEN /\ storage.registeredUserData = null
              /\ ~auth.isRegistered
              /\ auth.registeredUser = null
         ELSE /\ auth.isRegistered
              /\ auth.registeredUser = RegData(rj)
              /\ ~auth.isAuthenticated
              /\ storage.registeredUserData = rj

\* a record exactly as old as the expiration time was hydrated and kept
C21_Witness ==
  /\ hyd.pc = "done" /\ flow = NoFlow
  /\ NoAuthDataRead
  /\ hyd.storedRegisteredUserJson = RegJson(1, 2)
  /\ now - RegTimestamp(hyd.storedRegisteredUserJson) = REGISTERED_DATA_EXPIRATION_MS
  /\ auth.isRegistered
  /\ auth.registeredUser = 1
  /\ storage.registeredUserData = RegJson(1, 2)

\* a record one millisecond older than the expiration time was removed
C21_ExpiredReached ==
  /\ hyd.pc = "done" /\ flow = NoFlow
  /\ hyd.branch = "expired" /\ ~hyd.rejected
  /\ now - RegTimestamp(hyd.storedRegisteredUserJson) = REGISTERED_DATA_EXPIRATION_MS + 1
  /\ storage.registeredUserData = null
  /\ ~auth.isRegistered

\* C22: when the thunk has run twice in succession, nothing else having
\* been dispatched and no storage call rejected nor dispatch thrown in either
\* run, the state and the content of AsyncStorage after the second run are
\* those after the first, and isHydrated is true after each run.
C22_HydrationIdempotent ==
  (/\ hyd.pc = "done" /\ hyd.run = 2
   /\ hyd.first.clean
   /\ ~hyd.rejected /\ ~hyd.threw) =>
    /\ hyd.first.auth.isHydrated
    /\ auth.isHydrated
    /\ auth = hyd.first.auth
    /\ storage = hyd.first.storage

\* a persisted session was installed by both runs, with the same result
C22_SessionTwice ==
  /\ hyd.pc = "done" /\ hyd.run = 2
  /\ hyd.first.clean /\ ~hyd.rejected /\ ~hyd.threw
  /\ hyd.first.branch = "authenticated" /\ hyd.branch = "authenticated"
  /\ auth = hyd.first.auth /\ storage = hyd.first.storage

\* the AsyncStorage calls issued by the step
IssuedByStep == SubSeq(pending', Len(pending) + 1, Len(pending'))

\* a step in which the logout reducer ran: it issues AsyncStorage calls and
\* leaves the state unauthenticated (setAuthData, the other reducer that
\* issues calls, leaves it authenticated)
LogoutStep == Len(pending') > Len(pending) /\ ~auth'.isAuthenticated

LoggedOutFields(state) ==
  /\ state.accessToken = null /\ state.refreshToken = null
  /\ state.user = null /\ state.registeredUser = null
  /\ ~state.isAuthenticated /\ ~state.isRegistered

\* C23: logout, from any state, sets accessToken, refreshToken, user and
\* registeredUser to null and isAuthenticated and isRegistered to false,
\* leaves isHydrated as it is, and issues a removeItem for each of the keys
\* accessToken, refreshToken, user and registeredUserData and nothing else,
\* so that nothing is persisted once the calls have settled.  A logout
\* dispatched on a state that a logout produced changes neither the state
\* nor what will be persisted.
C23_LogoutFrame ==
  [][LogoutStep =>
       /\ LoggedOutFields(auth')
       /\ auth'.isHydrated = auth.isHydrated
       /\ storage' = storage
       /\ Len(IssuedByStep) = 4
       /\ { IssuedByStep[i] : i \in 1..4 } =
            { [op |-> "removeItem", key |-> k, value |-> null] :
                k \in {"accessToken", "refreshToken", "user", "registeredUserData"} }
       /\ ApplyAll(storage', pending') = EmptyStorage
       /\ (LoggedOutFields(auth) /\ ApplyAll(storage, pending) = EmptyStorage) =>
            /\ auth' = auth
            /\ ApplyAll(storage', pending') = ApplyAll(storage, pending)]_vars

\* logout was dispatched twice in a row on a hydrated store whose persisted
\* session is still in AsyncStorage
C23_Witness ==
  /\ Len(pending) = 8
  /\ \A i \in 1..8 : pending[i].op = "removeItem"
  /\ LoggedOutFields(auth)
  /\ auth.isHydrated
  /\ storage.accessToken = 1
  /\ storage.user = JSONstringify(1)

\* C24: an AsyncStorage call issued by setAuthData or logout that is
\* rejected leaves the state as the reducer made it and reaches no caller:
\* a step in which a call settles changes nothing but AsyncStorage.  The
\* state is changed by the dispatch itself, before any of its calls settles:
\* after the step of setAuthData the state is authenticated with the tokens
\* whose setItem calls are still outstanding, after the step of logout it is
\* logged out, AsyncStorage being as it was.
C24_NoRollback ==
  [][/\ Len(pending') < Len(pending) =>
          /\ auth' = auth
          /\ UNCHANGED <<mutex, slot, returned, hyd, flow>>
     /\ Len(pending') > Len(pending) =>
          /\ storage' = storage
          /\ IF auth'.isAuthenticated
               THEN /\ IssuedByStep[1] = [op |-> "setItem", key |-> "accessToken",
                                          value |-> auth'.accessToken]
                    /\ IssuedByStep[2] = [op |-> "setItem", key |-> "refreshToken",
                                          value |-> auth'.refreshToken]
               ELSE LoggedOutFields(auth')]_vars

\* the setItem of the access token was rejected and the state still holds
\* the session, of which only the rest is persisted
C24_Witness ==
  /\ pending = <<>>
  /\ failed
  /\ auth.isAuthenticated
  /\ auth.accessToken = 1
  /\ auth.refreshToken = RefreshBase + 1
  /\ storage.accessToken = null
  /\ storage.refreshToken = RefreshBase + 1

\* C25: the /refresh-token request carries the header Refresh-Token with the
\* refresh token read from the state under the mutex and carries no
\* Authorization header, whatever access token the state holds; the first
\* attempt and the replay carry as bearer the access token that is in the
\* state when they are sent.
C25_RefreshHeaders ==
  \A d \in Dispatches :
    /\ slot[d].pc = "refreshSent" =>
         /\ mutex.holder = d
         /\ Truthy(slot[d].refreshHdr)
         /\ slot[d].refreshHdr = slot[d].rtAtAcquire
         /\ slot[d].refreshBearer = null
    /\ slot[d].pc = "replaySent" =>
         slot[d].replayTok = slot[d].authAtReplay.accessToken

C26_Replaced ==
  /\ returned.d = 0
  /\ returned.last.kind = "refresh"
  /\ returned.last.body.access_token = 2
  /\ returned.last.body.user = 2
  /\ auth.user = 2

\* C27: when the login handler runs on a state that is not authenticated
\* (the login screen is left as soon as the state is authenticated): a
\* response that carries access token, refresh token and user leaves the
\* state authenticated with exactly those three; a 200 response that lacks
\* one of them leaves the state unauthenticated, without tokens and user.
\* The getUser request dispatched next carries that access token as bearer.
C27_LoginThenGetUser ==
  /\ [][(/\ flow.kind = "login" /\ flow.pc = "query" /\ flow'.pc = "done"
          /\ ~auth.isAuthenticated
          /\ ~returned.threw /\ returned.result.tag = "data") =>
          LET data == returned.result.body
          IN IF /\ ~data.isNull
                /\ data.accessToken > 0 /\ data.refreshToken > 0 /\ data.user > 0
               THEN /\ auth'.isAuthenticated
                    /\ auth'.accessToken = data.accessToken
                    /\ auth'.refreshToken = data.refreshToken
                    /\ auth'.user = data.user
                    /\ flow'.outcome = "loggedIn"
                    /\ flow'.accessToken = data.accessToken
               ELSE /\ ~auth'.isAuthenticated
                    /\ auth'.accessToken = null
                    /\ auth'.refreshToken = null
                    /\ auth'.user = null]_vars
  /\ [][\A d \in Dispatches :
          (/\ flow.kind = "login" /\ flow.outcome = "loggedIn"
           /\ slot[d].pc = "idle" /\ slot'[d].pc # "idle"
           /\ slot'[d].ep = "getUser") =>
            /\ slot'[d].pc = "firstSent"
            /\ slot'[d].firstTok = flow.accessToken
            /\ slot'[d].firstTok = auth.accessToken]_vars

\* after a login the getUser request is in flight with the access token of
\* the login response
C27_Witness ==
  /\ flow.kind = "getUser" /\ flow.pc = "query"
  /\ slot[flow.d].pc = "firstSent"
  /\ slot[flow.d].ep = "getUser"
  /\ slot[flow.d].firstTok = LoginPair
  /\ auth.isAuthenticated
  /\ auth.accessToken = LoginPair
  /\ auth.refreshToken = RefreshBase + LoginPair
  /\ auth.user = 1

\* a 200 login response without user was answered by logout
C27_MissingReached ==
  /\ flow.kind = "login" /\ flow.pc = "done" /\ flow.outcome = "missing"
  /\ ~auth.isAuthenticated /\ auth.accessToken = null

\* the counts of a call, while it runs and when it returns
WorkIsBounded ==
  /\ \A d \in Dispatches :
       /\ slot[d].nRefresh <= 1
       /\ slot[d].nSends <= 2
       /\ slot[d].nSends = 2 => slot[d].pc \in {"retrySent", "replaySent"}
  /\ refreshTotal <= Cardinality({d \in Dispatches : slot[d].unauth})
  /\ HasReturned =>
       /\ returned.call.nRefresh <= 1
       /\ returned.call.nSends <= 2
       /\ slot[returned.d].pc = "done"
       /\ mutex.holder # returned.d /\ ~InQueue(returned.d)

\* C28: a call sends at most one /refresh-token request and sends the
\* original request at most twice, the second time only as the retry or
\* replay; once the refresh request or the second sending is out, the call
\* only moves on to the replay or to its return, whatever the answer, and
\* never to mutex.acquire() again; the refresh request is answered inside
\* the call that sent it, without waiting for or taking the mutex anew.
C28_BoundedWork ==
  /\ []WorkIsBounded
  /\ [][\A d \in Dispatches :
          /\ slot[d].pc = "refreshSent" =>
               /\ slot'[d].pc \in {"refreshSent", "replaySent", "done"}
               /\ slot'[d].nRefresh <= 1
               /\ (refreshTotal' = refreshTotal \/ slot'[d].pc = "refreshSent")
          /\ slot[d].pc \in {"retrySent", "replaySent"} =>
               /\ slot'[d].pc \in {slot[d].pc, "done"}
               /\ (\/ refreshTotal' = refreshTotal
                   \/ \E e \in Dispatches \ {d} :
                        slot'[e].pc = "refreshSent" /\ slot[e].pc # "refreshSent")
          /\ slot[d].pc = "done" => slot'[d].pc = "done"]_vars

\* the replay after a successful refresh is answered by a parsing error
\* over 401, which is returned with the mutex free and one refresh sent
C28_Witness ==
  /\ HasReturned
  /\ returned.call.pc = "replaySent"
  /\ returned.result.kind = "replay"
  /\ returned.result.status = "PARSING_ERROR"
  /\ returned.result.originalStatus = "401"
  /\ returned.call.nRefresh = 1
  /\ returned.call.nSends = 2
  /\ refreshTotal = 1
  /\ ~isLocked(mutex)

\* the refresh request itself is answered 401 and that ends the call
C28_RefreshRefused ==
  /\ HasReturned
  /\ returned.result.kind = "refresh"
  /\ returned.result.status = "401"
  /\ returned.call.nRefresh = 1
  /\ returned.call.nSends = 1
  /\ refreshTotal = 1
  /\ ~isLocked(mutex)

\* C29: when every request is answered and the mutex serves its acquirers
\* in turn, every call that has begun returns a result tagged data or
\* error to its caller, however the calls interleave and whatever the
\* answers; no call stays parked at waitForUnlock or queued at acquire.
C29_EveryCallReturns ==
  \A d \in Dispatches :
    InFlight(d) ~>
      (/\ returned.d = d
       /\ ~returned.threw
       /\ returned.result.tag \in {"data", "error"}
       /\ slot[d].pc = "done")

\* two calls have each refreshed, the second after queueing for the mutex
\* or parking, and the last of them has returned with the mutex free
C29_Witness ==
  /\ HasReturned
  /\ ~returned.threw
  /\ returned.call.acquired
  /\ returned.result.tag \in {"data", "error"}
  /\ refreshTotal = 2
  /\ \A d \in 1..2 : slot[d].pc = "done"
  /\ ~isLocked(mutex)

\* a 200 refresh response that holds a non-empty pair in one of the shapes
UsablePair(refreshResult) ==
  LET data == refreshResult.body
  IN /\ refreshResult.tag = "data"
     /\ refreshResult.http = "200"
     /\ ~data.isNull
     /\ \/ Truthy(data.accessToken) /\ Truthy(data.refreshToken)
        \/ Truthy(data.access_token) /\ Truthy(data.refresh_token)

\* C30: a 200 refresh response that holds a non-empty token pair in the
\* camelCase shape or in the snake_case shape is never handled as a failed
\* refresh: no call returns by the logout branch of the refresh with such a
\* response as its result.
C30_UsablePairAccepted ==
  (HasReturned /\ returned.call.path = "refreshFailed") =>
     ~UsablePair(returned.result)

\* the same with the camelCase shape judged as the code judges it, by the
\* presence of its two keys: the snake_case pair counts only when one of
\* the camelCase keys is absent
C30_AcceptedByKeys ==
  (HasReturned /\ returned.call.path = "refreshFailed") =>
     LET data == returned.result.body
     IN ~(/\ UsablePair(returned.result)
          /\ \/ Truthy(data.accessToken) /\ Truthy(data.refreshToken)
             \/ data.accessToken = undefined
             \/ data.refreshToken = undefined)

\* the calls that have returned after their refresh was refused
RefreshFailed ==
  {c \in Dispatches : /\ slot[c].pc = "done"
                       /\ slot[c].unauth
                       /\ slot[c].nRefresh = 1
                       /\ ~Truthy(slot[c].newA)
                       /\ ~slot[c].threw}

\* call d got 401 with the bearer token of a call whose refresh was refused
\* and waits for the mutex
QueuedBehindFailure(d) ==
  /\ slot[d].pc = "acquiring"
  /\ slot[d].unauth
  /\ \E c \in RefreshFailed : slot[c].firstTok = slot[d].firstTok

\* C31: once a refused refresh has logged the user out, a call that got 401
\* with the same bearer token and waits for the mutex sends no refresh
\* request when acquire() resolves: it finds no refresh token, dispatches
\* logout, leaves the state logged out and returns the 401 result of its
\* own first attempt; no further refresh request is sent at all.
C31_QueuedAfterFailedRefresh ==
  /\ [][\A d \in Dispatches :
          (QueuedBehindFailure(d) /\ slot'[d] # slot[d]) =>
             /\ slot'[d].pc = "done"
             /\ slot'[d].nRefresh = 0
             /\ returned'.d = d
             /\ ~returned'.threw
             /\ returned'.call.path = "logout"
             /\ ~Truthy(returned'.call.rtAtAcquire)
             /\ returned'.call.acts = <<"logout">>
             /\ returned'.result = slot[d].firstRes
             /\ isUnauthorized(returned'.result)
             /\ ~auth'.isAuthenticated
             /\ auth'.accessToken = null
             /\ auth'.refreshToken = null]_vars
  /\ [][RefreshFailed # {} => refreshTotal' = refreshTotal]_vars

\* a call that waited for the mutex behind a refused refresh has returned
\* its own 401 by the logout branch, one refresh request sent in all
C31_Witness ==
  /\ HasReturned
  /\ returned.call.path = "logout"
  /\ returned.call.firstTok = 1
  /\ isUnauthorized(returned.result)
  /\ \E c \in RefreshFailed : c # returned.d /\ slot[c].firstTok = 1
  /\ refreshTotal = 1

\* call d is inside the section the mutex protects: acquire() has resolved
\* for it and it has not called release()
InSection(d) ==
  slot[d].pc # "done" /\ slot[d].acquired /\ ~slot[d].called

OneInSection ==
  /\ \A c, d \in Dispatches : (InSection(c) /\ InSection(d)) => c = d
  /\ \A d \in Dispatches : InSection(d) => mutex.holder = d
  /\ \A d \in Dispatches :
       slot[d].pc = "acquiring" =>
          \/ mutex.holder = d
          \/ \E i \in 1..Len(mutex.queue) : mutex.queue[i] = d

\* the refresh branch of part_005 is never entered
Part5NoRefresh ==
  /\ refreshTotal = 0
  /\ \A d \in Dispatches : slot[d].pc # "refreshSent"

\* C32: on the path that releases before the retry, the release() of the
\* finally block, called after the retry, leaves the mutex as it is, whoever
\* has acquired it in between; at most one call is inside the protected
\* section, it is the holder, and a call waiting for acquire() is the holder
\* or in the queue.
C32_ReleasedOnce ==
  /\ []OneInSection
  /\ [][\A d \in Dispatches :
          (slot[d].pc = "retrySent" /\ slot[d].called /\ slot'[d].pc = "done") =>
             mutex' = mutex]_vars

\* a call returns from the retry it sent after releasing, and the mutex is
\* held by another call that acquired it in between
C32_Witness ==
  /\ HasReturned
  /\ returned.call.pc = "retrySent"
  /\ returned.call.path = "retry"
  /\ returned.call.called
  /\ isLocked(mutex)
  /\ mutex.holder # returned.d
  /\ slot[mutex.holder].pc = "acquiring"

\* a refresh or a login has put a pair of tokens in the store
NewerPairInstalled ==
  \/ \E d \in Dispatches : Truthy(slot[d].newA)
  \/ flow.kind = "login" /\ flow.outcome = "loggedIn"

\* C33: once a login or a refresh has installed a pair of tokens, no run of
\* hydrateAuthState ends with a token of the pair that was persisted before
\* in the state or in AsyncStorage.
C33_NoOlderPair ==
  (hyd.pc = "done" /\ NewerPairInstalled) =>
     /\ auth.accessToken # 1
     /\ auth.refreshToken # RefreshBase + 1
     /\ storage.accessToken # 1
     /\ storage.refreshToken # RefreshBase + 1

\* the same for the run dispatched at the start of the application, during
\* which no screen is mounted
C33_FirstRunOnly ==
  (hyd.pc = "done" /\ hyd.run = 1 /\ NewerPairInstalled) =>
     /\ auth.accessToken # 1
     /\ auth.refreshToken # RefreshBase + 1
     /\ storage.accessToken # 1
     /\ storage.refreshToken # RefreshBase + 1

\* a run has ended, none of its storage calls rejected, by a branch other
\* than that of a user text that does not parse
CleanRunEnded ==
  /\ hyd.pc = "done"
  /\ ~hyd.rejected
  /\ hyd.branch # "corruptedUser"

NoExpiredRecordLeft ==
  (CleanRunEnded /\ Truthy(storage.registeredUserData)) =>
     ~(now - RegTimestamp(storage.registeredUserData) > 7 * 24 * 60 * 60 * 1000)

C34_HydratedTwice ==
  /\ CleanRunEnded
  /\ hyd.run = 2
  /\ hyd.branch = "registered"
  /\ now = 2
  /\ storage.registeredUserData = RegJson(1, 1)

====
